---- MODULE Spec2Model ----
(***************************************************************************)
(* A model of the conversation store of the AI chat exporter               *)
(* (scripts/storage-manager.js).  The backend is chrome.storage.local; an  *)
(* invocation of a store function is a process that suspends at every      *)
(* backend access, so two invocations can interleave between the read and  *)
(* the write of a read-modify-write operation.                             *)
(*                                                                         *)
(* A conversation is a function from field names to values (a JavaScript   *)
(* object); an absent field is a name outside its DOMAIN.  A content       *)
(* string is written by a short name; StrLen gives the length of the       *)
(* string the name stands for, so that a few records can fill the 5MB      *)
(* ceiling.                                                                *)
(***************************************************************************)
EXTENDS Integers, Sequences, FiniteSets, TLC

---------------------------------------------------------------------------
(* Bounds of the model *)

\* number of ids generateId can hand out (so at most MaxIds stored records)
MaxIds == 3
\* largest value of Date.now()
MaxClock == 2
\* length of the string the content name BigContent stands for
BigLen == 2400000

Procs == {1, 2}

---------------------------------------------------------------------------
(* Program constants *)

MAX_STORAGE_SIZE == 5 * 1024 * 1024
UsageLimit == 90
UntitledTitle == "Untitled Conversation"
UnknownProvider == "unknown"
\* window.location.href of the page the store script runs in
PageUrl == "https://page"
\* digits of Date.now() and characters of a generated id, as JSON text
TimestampDigits == 13
IdChars == 28

BigContent == "BIG"

---------------------------------------------------------------------------
(* JavaScript values *)

NoFields == [k \in {} |-> TRUE]

Has(o, k) == k \in DOMAIN o

\* { ...a, ...b }
Spread(a, b) ==
  [k \in (DOMAIN a) \cup (DOMAIN b) |-> IF k \in DOMAIN b THEN b[k] ELSE a[k]]

\* o.k || dflt, for a string, a number, a boolean and an array field
OrStr(o, k, dflt) == IF Has(o, k) /\ o[k] # "" THEN o[k] ELSE dflt
OrNum(o, k, dflt) == IF Has(o, k) /\ o[k] # 0 THEN o[k] ELSE dflt
OrBool(o, k, dflt) == IF Has(o, k) /\ o[k] THEN o[k] ELSE dflt
OrArr(o, k, dflt) == IF Has(o, k) THEN o[k] ELSE dflt

\* !o.k for a string field
Falsy(o, k) == ~Has(o, k) \/ o[k] = ""

StrLen(s) == IF s = BigContent THEN BigLen ELSE Len(s)

UpperCase == "ABCDEFGHIJKLMNOPQRSTUVWXYZ"
LowerCase == "abcdefghijklmnopqrstuvwxyz"

\* one character, lower-cased
LowerChar(ch) ==
  IF \E i \in 1..Len(UpperCase) : SubSeq(UpperCase, i, i) = ch
  THEN LET i == CHOOSE j \in 1..Len(UpperCase) : SubSeq(UpperCase, j, j) = ch
       IN SubSeq(LowerCase, i, i)
  ELSE ch

\* s.toLowerCase()
RECURSIVE ToLowerCase(_)
ToLowerCase(s) ==
  IF Len(s) = 0 THEN ""
  ELSE LowerChar(SubSeq(s, 1, 1)) \o ToLowerCase(SubSeq(s, 2, Len(s)))

Whitespace == {" ", "\n", "\t"}

\* s.trim()
RECURSIVE Trim(_)
Trim(s) ==
  IF Len(s) = 0 THEN ""
  ELSE IF SubSeq(s, 1, 1) \in Whitespace THEN Trim(SubSeq(s, 2, Len(s)))
  ELSE IF SubSeq(s, Len(s), Len(s)) \in Whitespace
       THEN Trim(SubSeq(s, 1, Len(s) - 1))
  ELSE s

\* s.includes(q)
Includes(s, q) ==
  \E i \in 0..(Len(s) - Len(q)) : SubSeq(s, i + 1, i + Len(q)) = q

RECURSIVE SumSeq(_)
SumSeq(s) == IF s = <<>> THEN 0 ELSE Head(s) + SumSeq(Tail(s))

Commas(n) == IF n = 0 THEN 0 ELSE n - 1

\* length of JSON.stringify of an array of strings
JsonStrArr(a) == 2 + SumSeq([i \in 1..Len(a) |-> StrLen(a[i]) + 2]) + Commas(Len(a))

\* length of JSON.stringify of one field value
JsonValue(k, v) ==
  CASE k \in {"title", "content", "provider", "url", "conversationId", "notes"} ->
         StrLen(v) + 2
    [] k = "id" -> IdChars + 2
    [] k \in {"timestamp", "modifiedAt"} -> TimestampDigits
    [] k = "messageCount" -> 1
    [] k = "isFavorite" -> IF v THEN 4 ELSE 5
    [] k = "tags" -> JsonStrArr(v)
    [] OTHER -> 2

FieldOrder == <<"id", "title", "content", "provider", "timestamp", "url",
                "conversationId", "tags", "isFavorite", "notes", "messageCount",
                "modifiedAt">>

\* length of JSON.stringify of one conversation
JsonConv(c) ==
  LET sizes == [i \in 1..Len(FieldOrder) |->
                  IF Has(c, FieldOrder[i])
                  THEN Len(FieldOrder[i]) + 3 + JsonValue(FieldOrder[i], c[FieldOrder[i]])
                  ELSE 0]
  IN 2 + SumSeq(sizes) + Commas(Cardinality(DOMAIN c))

\* JSON.stringify(conversations).length
JsonSize(list) ==
  2 + SumSeq([i \in 1..Len(list) |-> JsonConv(list[i])]) + Commas(Len(list))

---------------------------------------------------------------------------
(* Array helpers *)

\* findIndex(conv => conv.id = id): the assignment is truthy for every record
FindIndex_Assign(list, id) ==
  IF \E i \in 1..Len(list) : list[i].id = id
  THEN CHOOSE i \in 1..Len(list) : list[i].id = id
  ELSE IF list = <<>> THEN 0 ELSE 1

\* conversations.findIndex(conv => conv.id === id), 1-based, 0 for -1
FindIndex(list, id) ==
  IF \E i \in 1..Len(list) : list[i].id = id
  THEN CHOOSE i \in 1..Len(list) :
         /\ list[i].id = id
         /\ \A j \in 1..(i - 1) : list[j].id # id
  ELSE 0

HasId(list, id) == \E i \in 1..Len(list) : list[i].id = id

Ids(list) == {list[i].id : i \in 1..Len(list)}

\* the comparator the other way round: a.timestamp - b.timestamp
RECURSIVE InsertDesc_Ascending(_, _)
InsertDesc_Ascending(sorted, c) ==
  IF sorted = <<>> THEN <<c>>
  ELSE IF Head(sorted).timestamp <= c.timestamp
       THEN <<Head(sorted)>> \o InsertDesc_Ascending(Tail(sorted), c)
       ELSE <<c>> \o sorted

\* insert c behind every element whose timestamp is not smaller (stable)
RECURSIVE InsertDesc(_, _)
InsertDesc(sorted, c) ==
  IF sorted = <<>> THEN <<c>>
  ELSE IF Head(sorted).timestamp >= c.timestamp
       THEN <<Head(sorted)>> \o InsertDesc(Tail(sorted), c)
       ELSE <<c>> \o sorted

\* list.sort((a, b) => b.timestamp - a.timestamp): stable, newest first
RECURSIVE SortDesc(_)
SortDesc(list) ==
  IF list = <<>> THEN <<>>
  ELSE InsertDesc(SortDesc(SubSeq(list, 1, Len(list) - 1)), list[Len(list)])

---------------------------------------------------------------------------
(* Inputs *)

\* conversationData handed to saveConversation: the data object that
\* exportChatToMarkdown assembles (with messages and its own timestamp), a
\* large favourite without a title, and a large record with an empty platform id
DataSamples ==
  { [title |-> "Gamma", provider |-> "claude", url |-> "https://claude.ai/chat/c1",
     conversationId |-> "c1", messageCount |-> 1,
     messages |-> <<[role |-> "User", content |-> "hi"]>>, timestamp |-> 0],
    [content |-> BigContent, isFavorite |-> TRUE],
    [title |-> "Beta", content |-> BigContent, conversationId |-> ""] }

\* updates handed to updateConversation: a rename that marks the record a
\* favourite and carries an id field of its own
UpdateSamples ==
  { [id |-> 1, title |-> "Renamed", isFavorite |-> TRUE] }

IdSet == 1..MaxIds

\* ids handed to deleteConversations
IdLists == {<<>>} \cup {<<i, i + 1>> : i \in 1..(MaxIds - 1)}

\* conversationId handed to findDuplicate: NoFields stands for an absent argument
DuplicateQueries == {NoFields, [conversationId |-> ""], [conversationId |-> "c1"],
                     [conversationId |-> "c2"]}

\* arguments handed to searchConversations: a record without `query` is a
\* call without a query, one without `filters` a call that takes the default {}
SearchSamples ==
  { NoFields,
    [query |-> ""],
    [query |-> " ", filters |-> NoFields],
    [query |-> "beta"],
    [query |-> "", filters |-> [isFavorite |-> TRUE]] }

---------------------------------------------------------------------------
(* State *)

VARIABLES
  store,       \* chrome.storage.local[STORAGE_KEY]
  clock,       \* the last value of Date.now()
  nextId,      \* the next id generateId returns
  pc,          \* per invocation: "idle", "read" (suspended before its write), "done"
  op,          \* per invocation: the function called and its arguments
  convs,       \* per invocation: its local array `conversations`
  cleaned,     \* per invocation: the value checkAndCleanupStorage resolved to
  result,      \* per invocation: the value returned or the error thrown
  io,          \* per invocation: which of its backend accesses failed
  snap,        \* per invocation: the stored list at the moment of its read
  stale,       \* per invocation: another invocation wrote after its read
  base,        \* per invocation: the invocation whose write its read saw
  lastWriter,  \* the invocation that wrote the stored list last
  settings,    \* chrome.storage.local[SETTINGS_KEY]
  imp,         \* the invocation of importData (or of handleImport, which calls it)
  page,        \* the candidate turn elements of the page the extractor scans
  extraction,  \* what exportChatToMarkdown computed on the page
  popup,       \* the popup's save-and-export click handler
  hist         \* the history page: its two lists, its controls, its Delete handler

storeVars == <<store, clock, nextId, pc, op, convs, cleaned, result, io, snap, stale,
               base, lastWriter>>

vars == <<store, clock, nextId, pc, op, convs, cleaned, result, io, snap, stale,
          base, lastWriter, settings, imp, page, extraction, popup, hist>>

NoOp == [name |-> "none"]
NoResult == [status |-> "none"]
NoIo == [read |-> "none", write |-> "none"]

Ok(v) == [status |-> "ok", value |-> v]
Thrown(m) == [status |-> "error", message |-> m]

\* the error a failed chrome.storage call rejects with, and the Error
\* updateConversation throws for an id it does not find
BackendError == [kind |-> "backend failure"]
NotFound(id) == [kind |-> "not found", id |-> id]

\* JavaScript's undefined and null
Undefined == [undefined |-> TRUE]
Null == [null |-> TRUE]

\* no import is running, no extraction has run
NoImport == [pc |-> "idle"]
NoExtraction == [ran |-> FALSE]
NoPopup == [pc |-> "idle"]
NoHistory == [loaded |-> FALSE]

\* the backend holds neither key; no function has been called
StoreInit ==
  /\ store = <<>>
  /\ clock = 1
  /\ nextId = 1
  /\ pc = [p \in Procs |-> "idle"]
  /\ op = [p \in Procs |-> NoOp]
  /\ convs = [p \in Procs |-> <<>>]
  /\ cleaned = [p \in Procs |-> <<>>]
  /\ result = [p \in Procs |-> NoResult]
  /\ io = [p \in Procs |-> NoIo]
  /\ snap = [p \in Procs |-> <<>>]
  /\ stale = [p \in Procs |-> FALSE]
  /\ base = [p \in Procs |-> 0]
  /\ lastWriter = 0

Init ==
  /\ StoreInit
  /\ settings = Undefined
  /\ imp = NoImport
  /\ page = <<>>
  /\ extraction = NoExtraction
  /\ popup = NoPopup
  /\ hist = NoHistory

\* Date.now(): never decreases, may return the same millisecond twice
Now == {t \in clock..(clock + 1) : t <= MaxClock}

---------------------------------------------------------------------------
(* Store functions *)

\* getAllConversations: the stored list, or [] when the backend read fails
getAllConversations(readFails) == IF readFails THEN <<>> ELSE store

\* the record saveConversation builds from conversationData
NewConversation(d, id, now) ==
  [id |-> id,
   title |-> OrStr(d, "title", UntitledTitle),
   content |-> OrStr(d, "content", ""),
   provider |-> OrStr(d, "provider", UnknownProvider),
   timestamp |-> now,
   url |-> OrStr(d, "url", PageUrl),
   conversationId |-> OrStr(d, "conversationId", ""),
   tags |-> OrArr(d, "tags", <<>>),
   isFavorite |-> OrBool(d, "isFavorite", FALSE),
   notes |-> OrStr(d, "notes", ""),
   messageCount |-> OrNum(d, "messageCount", 0)]

Over90(list) == JsonSize(list) * 100 > UsageLimit * MAX_STORAGE_SIZE

\* the partition without its filter
NonFavorites_All(list) == list

\* conversations.filter(c => !c.isFavorite)
NonFavorites(list) == SelectSeq(list, LAMBDA c : ~c.isFavorite)

\* Math.ceil(n * 0.1), for the list lengths the model reaches
ToRemove(n) == (n + 9) \div 10

\* nonFavorites.slice(-toRemove).map(c => c.id) of a list sorted newest first
ToDelete(sorted) ==
  LET nonFavorites == NonFavorites(sorted)
      n == Len(nonFavorites)
  IN {nonFavorites[i].id : i \in (n - ToRemove(n) + 1)..n}

\* checkAndCleanupStorage(conversations): `array` is the argument afterwards (it
\* is sorted in place above the limit), `returned` the value it resolves to
checkAndCleanupStorage(conversations) ==
  IF Over90(conversations)
  THEN LET sorted == SortDesc(conversations)
       IN IF NonFavorites(sorted) # <<>>
          THEN [array |-> sorted,
                returned |-> SelectSeq(sorted, LAMBDA c : c.id \notin ToDelete(sorted))]
          ELSE [array |-> sorted, returned |-> sorted]
  ELSE [array |-> conversations, returned |-> conversations]

\* the spread with updates last: { ...existing, id, modifiedAt, ...updates }
MergedConversation_IdFirst(existing, updates, id, now) ==
  Spread(Spread(existing, [id |-> id, modifiedAt |-> now]), updates)

\* { ...conversations[index], ...updates, id, modifiedAt: Date.now() }
MergedConversation(existing, updates, id, now) ==
  Spread(Spread(existing, updates), [id |-> id, modifiedAt |-> now])

\* the filter with its test inverted
WithoutIds_Inverted(list, ids) == SelectSeq(list, LAMBDA c : c.id \in ids)

\* conversations.filter(conv => !ids.includes(conv.id))
WithoutIds(list, ids) == SelectSeq(list, LAMBDA c : c.id \notin ids)

Range(s) == {s[i] : i \in 1..Len(s)}

\* conversations.find(pred), given the indices whose element satisfies pred:
\* the first such element, or undefined
Find(list, hits) ==
  IF hits # {}
  THEN list[CHOOSE i \in hits : \A j \in hits : i <= j]
  ELSE Undefined

\* getConversation(id) on the list getAllConversations gave
getConversationIn(list, id) ==
  Find(list, {i \in 1..Len(list) : list[i].id = id})

\* findDuplicate without its first line: the scan alone
findDuplicateIn_NoGuard(list, args) ==
  Find(list, {i \in 1..Len(list) :
                Has(args, "conversationId")
                /\ list[i].conversationId = args.conversationId})

\* findDuplicate(conversationId): null for a falsy argument, without a read
findDuplicateIn(list, args) ==
  IF Falsy(args, "conversationId")
  THEN Null
  ELSE Find(list, {i \in 1..Len(list) :
                     list[i].conversationId = args.conversationId})

\* the keyword test of searchConversations
MatchesQuery(c, lowerQuery) ==
  \/ Includes(ToLowerCase(c.title), lowerQuery)
  \/ Includes(ToLowerCase(c.content), lowerQuery)
  \/ Includes(ToLowerCase(c.notes), lowerQuery)
  \/ \E i \in 1..Len(c.tags) : Includes(ToLowerCase(c.tags[i]), lowerQuery)

\* searchConversations(query, filters) on the list getAllConversations gave
searchConversationsIn(list, args) ==
  LET filters == IF Has(args, "filters") THEN args.filters ELSE NoFields
      r1 == IF Has(args, "query") /\ args.query # "" /\ Trim(args.query) # ""
            THEN SelectSeq(list, LAMBDA c : MatchesQuery(c, ToLowerCase(args.query)))
            ELSE list
      r2 == IF Has(filters, "provider") /\ filters.provider # ""
            THEN SelectSeq(r1, LAMBDA c : c.provider = filters.provider)
            ELSE r1
      r3 == IF Has(filters, "isFavorite")
            THEN SelectSeq(r2, LAMBDA c : c.isFavorite = filters.isFavorite)
            ELSE r2
      r4 == IF Has(filters, "startDate") /\ filters.startDate # 0
            THEN SelectSeq(r3, LAMBDA c : c.timestamp >= filters.startDate)
            ELSE r3
      r5 == IF Has(filters, "endDate") /\ filters.endDate # 0
            THEN SelectSeq(r4, LAMBDA c : c.timestamp <= filters.endDate)
            ELSE r4
      r6 == IF Has(filters, "tags") /\ Len(filters.tags) > 0
            THEN SelectSeq(r5, LAMBDA c :
                   \E i \in 1..Len(filters.tags) : filters.tags[i] \in Range(c.tags))
            ELSE r5
  IN SortDesc(r6)

---------------------------------------------------------------------------
(* Invocations *)

ReadStatus(readFails) == IF readFails THEN "failed" ELSE "ok"

Pending(name) == Cardinality({q \in Procs : pc[q] = "read" /\ op[q].name = name})

\* a read-modify-write function is called: it runs up to its backend read,
\* `await getAllConversations()`, and is suspended there with the list it got
Invoke(p, o, readFails) ==
  /\ pc[p] = "idle"
  /\ pc' = [pc EXCEPT ![p] = "read"]
  /\ op' = [op EXCEPT ![p] = o]
  /\ convs' = [convs EXCEPT ![p] = getAllConversations(readFails)]
  /\ io' = [io EXCEPT ![p] = [read |-> ReadStatus(readFails), write |-> "none"]]
  /\ snap' = [snap EXCEPT ![p] = store]
  /\ stale' = [stale EXCEPT ![p] = FALSE]
  /\ base' = [base EXCEPT ![p] = lastWriter]
  /\ UNCHANGED <<store, clock, nextId, cleaned, result, lastWriter>>

saveConversationCall(p, d, readFails, maxIds) ==
  /\ nextId + Pending("save") <= maxIds
  /\ Invoke(p, [name |-> "save", data |-> d], readFails)

updateConversationCall(p, id, updates, readFails) ==
  Invoke(p, [name |-> "update", id |-> id, updates |-> updates], readFails)

deleteConversationCall(p, id, readFails) ==
  Invoke(p, [name |-> "delete", id |-> id], readFails)

deleteConversationsCall(p, ids, readFails) ==
  Invoke(p, [name |-> "deleteMany", ids |-> ids], readFails)

\* a function that only reads runs from its call to its end in one step: it
\* has no suspension point after its backend read
ReadOnly(p, o, list, read, value) ==
  /\ pc[p] = "idle"
  /\ pc' = [pc EXCEPT ![p] = "done"]
  /\ op' = [op EXCEPT ![p] = o]
  /\ convs' = [convs EXCEPT ![p] = list]
  /\ io' = [io EXCEPT ![p] = [read |-> read, write |-> "none"]]
  /\ snap' = [snap EXCEPT ![p] = store]
  /\ result' = [result EXCEPT ![p] = Ok(value)]
  /\ UNCHANGED <<store, clock, nextId, cleaned, stale, base, lastWriter>>

getConversation(p, id, readFails) ==
  LET list == getAllConversations(readFails)
  IN ReadOnly(p, [name |-> "get", id |-> id], list, ReadStatus(readFails),
              getConversationIn(list, id))

\* the backend is read only for a truthy conversationId
findDuplicate(p, args, readFails) ==
  LET list == getAllConversations(readFails)
  IN ReadOnly(p, [name |-> "findDuplicate", args |-> args], list,
              IF Falsy(args, "conversationId") THEN "none" ELSE ReadStatus(readFails),
              findDuplicateIn(list, args))

\* the array searchConversations sorts is its own: `conversations` when no
\* filter applied, a filtered copy otherwise; the stored list is not written
searchConversations(p, args, readFails) ==
  LET list == getAllConversations(readFails)
      results == searchConversationsIn(list, args)
  IN ReadOnly(p, [name |-> "search", args |-> args], results,
              ReadStatus(readFails), results)

\* chrome.storage.local.set({ [STORAGE_KEY]: list }) by invocation p, and the
\* end of p: the write lands and p returns `value`, or it fails and p throws
SetAndReturn(p, list, value, writeFails) ==
  /\ pc' = [pc EXCEPT ![p] = "done"]
  /\ io' = [io EXCEPT ![p].write = IF writeFails THEN "failed" ELSE "ok"]
  /\ IF writeFails
     THEN /\ result' = [result EXCEPT ![p] = Thrown(BackendError)]
          /\ UNCHANGED <<store, stale, lastWriter>>
     ELSE /\ result' = [result EXCEPT ![p] = Ok(value)]
          /\ store' = list
          /\ stale' = [q \in Procs |->
                         IF q # p /\ pc[q] = "read" THEN TRUE ELSE stale[q]]
          /\ lastWriter' = p

\* a save that stores the new record alone
Pushed_Replace(list, conversation) == <<conversation>>

\* conversations.push(conversation)
Pushed(list, conversation) == Append(list, conversation)

\* saveConversation after its read: build the record, push it, run the
\* capacity check (whose return value is not used), write the array
saveConversation(p) ==
  /\ pc[p] = "read" /\ op[p].name = "save"
  /\ \E now \in Now, writeFails \in BOOLEAN :
       LET conversation == NewConversation(op[p].data, nextId, now)
           check == checkAndCleanupStorage(Pushed(convs[p], conversation))
       IN /\ clock' = now
          /\ nextId' = nextId + 1
          /\ convs' = [convs EXCEPT ![p] = check.array]
          /\ cleaned' = [cleaned EXCEPT ![p] = check.returned]
          /\ SetAndReturn(p, check.array, conversation, writeFails)
  /\ UNCHANGED <<op, snap, base>>

\* updateConversation after its read
updateConversation(p) ==
  /\ pc[p] = "read" /\ op[p].name = "update"
  /\ LET id == op[p].id
         index == FindIndex(convs[p], id)
     IN IF index = 0
        THEN /\ pc' = [pc EXCEPT ![p] = "done"]
             /\ result' = [result EXCEPT ![p] = Thrown(NotFound(id))]
             /\ UNCHANGED <<store, clock, convs, io, stale, lastWriter>>
        ELSE \E now \in Now, writeFails \in BOOLEAN :
               LET merged == MergedConversation(convs[p][index], op[p].updates, id, now)
                   updated == [convs[p] EXCEPT ![index] = merged]
               IN /\ clock' = now
                  /\ convs' = [convs EXCEPT ![p] = updated]
                  /\ SetAndReturn(p, updated, merged, writeFails)
  /\ UNCHANGED <<nextId, op, cleaned, snap, base>>

\* deleteConversation after its read
deleteConversation(p) ==
  /\ pc[p] = "read" /\ op[p].name = "delete"
  /\ \E writeFails \in BOOLEAN :
       SetAndReturn(p, WithoutIds(convs[p], {op[p].id}), TRUE, writeFails)
  /\ UNCHANGED <<clock, nextId, op, convs, cleaned, snap, base>>

\* deleteConversations after its read
deleteConversations(p) ==
  /\ pc[p] = "read" /\ op[p].name = "deleteMany"
  /\ \E writeFails \in BOOLEAN :
       SetAndReturn(p, WithoutIds(convs[p], Range(op[p].ids)), TRUE, writeFails)
  /\ UNCHANGED <<clock, nextId, op, convs, cleaned, snap, base>>

\* the caller takes the result; the invocation's locals are gone
Return(p) ==
  /\ pc[p] = "done"
  /\ pc' = [pc EXCEPT ![p] = "idle"]
  /\ op' = [op EXCEPT ![p] = NoOp]
  /\ convs' = [convs EXCEPT ![p] = <<>>]
  /\ cleaned' = [cleaned EXCEPT ![p] = <<>>]
  /\ result' = [result EXCEPT ![p] = NoResult]
  /\ io' = [io EXCEPT ![p] = NoIo]
  /\ snap' = [snap EXCEPT ![p] = <<>>]
  /\ stale' = [stale EXCEPT ![p] = FALSE]
  /\ base' = [base EXCEPT ![p] = 0]
  /\ UNCHANGED <<store, clock, nextId, lastWriter>>

---------------------------------------------------------------------------
(* Specifications *)

\* one caller at a time: every function runs to its end before the next call.
\* Invocation 1 is the function that writes; invocation 2 is a read the caller
\* makes next: any read once invocation 1 has returned, or getConversation of
\* the id a saveConversation just returned, while the caller holds that result.
Saved(p) == pc[p] = "done" /\ op[p].name = "save" /\ result[p].status = "ok"

\* the store's functions leave the settings key, a running import and the
\* extractor's page alone
StoreOnly == UNCHANGED <<settings, imp, page, extraction, popup, hist>>

Next ==
  \/ /\ pc[2] = "idle"
     /\ \/ \E d \in DataSamples, f \in BOOLEAN : saveConversationCall(1, d, f, MaxIds)
        \/ \E id \in IdSet, u \in UpdateSamples, f \in BOOLEAN :
             updateConversationCall(1, id, u, f)
        \/ \E id \in IdSet, f \in BOOLEAN : deleteConversationCall(1, id, f)
        \/ \E ids \in IdLists, f \in BOOLEAN : deleteConversationsCall(1, ids, f)
     /\ StoreOnly
  \/ saveConversation(1) /\ StoreOnly
  \/ updateConversation(1) /\ StoreOnly
  \/ deleteConversation(1) /\ StoreOnly
  \/ deleteConversations(1) /\ StoreOnly
  \/ Return(1) /\ StoreOnly
  \/ /\ pc[1] = "idle"
     /\ \/ \E id \in IdSet, f \in BOOLEAN : getConversation(2, id, f)
        \/ \E a \in DuplicateQueries, f \in BOOLEAN : findDuplicate(2, a, f)
        \/ \E a \in SearchSamples, f \in BOOLEAN : searchConversations(2, a, f)
     /\ StoreOnly
  \/ /\ Saved(1)
     /\ \E f \in BOOLEAN : getConversation(2, result[1].value.id, f)
     /\ StoreOnly
  \/ Return(2) /\ StoreOnly

Spec == Init /\ [][Next]_vars

\* two independent callers (two pages or two handlers) on the same backend key
RaceData == {d \in DataSamples : Has(d, "messages")}
RaceUpdates == UpdateSamples
RaceIds == 1..(MaxIds - 1)

NextRace ==
  \E p \in Procs :
    \/ (\E d \in RaceData : saveConversationCall(p, d, FALSE, MaxIds - 1)) /\ StoreOnly
    \/ saveConversation(p) /\ StoreOnly
    \/ (\E id \in RaceIds, u \in RaceUpdates : updateConversationCall(p, id, u, FALSE))
         /\ StoreOnly
    \/ updateConversation(p) /\ StoreOnly
    \/ (\E id \in RaceIds : deleteConversationCall(p, id, FALSE)) /\ StoreOnly
    \/ deleteConversation(p) /\ StoreOnly
    \/ Return(p) /\ StoreOnly

SpecRace == Init /\ [][NextRace]_vars

---------------------------------------------------------------------------
(* Searching a store of tagged records *)

\* conversationData of the saves that fill the store searched: two providers,
\* a favourite, tags in either case, the word "beta" in a title or in notes
SearchData ==
  { [title |-> "Alpha", provider |-> "claude", tags |-> <<"work">>,
     isFavorite |-> TRUE, notes |-> "see Beta"],
    [title |-> "Beta", provider |-> "chatgpt", tags |-> <<"home", "Work">>] }

\* arguments of searchConversations that supply filters
FilterSamples ==
  { [query |-> "", filters |-> [provider |-> "claude"]],
    [query |-> "", filters |-> [isFavorite |-> FALSE]],
    [query |-> "", filters |-> [isFavorite |-> TRUE]],
    [query |-> "", filters |-> [startDate |-> 2]],
    [query |-> "", filters |-> [endDate |-> 1]],
    [query |-> "", filters |-> [endDate |-> 0]],
    [query |-> "", filters |-> [tags |-> <<"x", "work">>]],
    [query |-> "BETA", filters |-> [provider |-> "chatgpt", startDate |-> 1,
                                    endDate |-> MaxClock]],
    [query |-> "wor", filters |-> [isFavorite |-> FALSE, tags |-> <<"home">>]] }

\* one caller saves records and searches them; no backend access fails
NextSearch ==
  \/ /\ pc[2] = "idle"
     /\ \E d \in SearchData : saveConversationCall(1, d, FALSE, MaxIds)
     /\ StoreOnly
  \/ saveConversation(1) /\ StoreOnly
  \/ Return(1) /\ StoreOnly
  \/ /\ pc[1] = "idle"
     /\ \E a \in FilterSamples : searchConversations(2, a, FALSE)
     /\ StoreOnly
  \/ Return(2) /\ StoreOnly

SpecSearch == Init /\ [][NextSearch]_vars

---------------------------------------------------------------------------
(* Import *)

\* a JavaScript array as the value of a field that may also hold something else
Arr(items) == [array |-> items]
\* an object that is not an array, such as {}
AnObject == [object |-> TRUE]

\* Array.isArray(v), and !v for a field that holds an array, an object or null
IsArray(v) == Has(v, "array")
Truthy(v) == v # Null /\ v # Undefined

\* the errors importData and handleImport throw
InvalidFormat == [kind |-> "Invalid import data format"]
MissingVersion == [kind |-> "Invalid export file: missing version field"]
NotAnArray == [kind |-> "Invalid export file: conversations must be an array"]
TypeError == [kind |-> "TypeError"]

\* records of import bundles: an exported record of the platform conversation
\* "c1" (with the id and timestamp it had in the exporting store), a record of
\* another conversation, one with an empty platform id, and an exported record
\* of "c1" that had been edited (so it carries modifiedAt)
RecA == [id |-> 3, title |-> "A2", conversationId |-> "c1", notes |-> "imported",
         timestamp |-> 1]
RecB == [title |-> "B", conversationId |-> "c2"]
RecC == [title |-> "C", conversationId |-> ""]
RecD == [id |-> 2, title |-> "A3", conversationId |-> "c1", isFavorite |-> TRUE,
         timestamp |-> 1, modifiedAt |-> 1]

\* the data argument of importData / the parsed document of handleImport
ValidBundles ==
  { [version |-> "1.0", conversations |-> Arr(<<RecA, RecB, RecC>>)],
    [version |-> "1.0", conversations |-> Arr(<<RecA, RecD>>)],
    [version |-> "1.0", conversations |-> Arr(<<>>)],
    [conversations |-> Arr(<<RecA>>)] }

InvalidBundles ==
  { Undefined, Null, NoFields, [version |-> "1.0"],
    [version |-> "1.0", conversations |-> Null],
    [version |-> "1.0", conversations |-> AnObject] }

Bundles == ValidBundles \cup InvalidBundles

\* the documents of the files chosen on the history page
Documents ==
  InvalidBundles \cup {b \in ValidBundles : Len(b.conversations.array) = 1}
                 \cup {[version |-> "", conversations |-> Arr(<<RecB>>)],
                       [version |-> "1.0", conversations |-> Arr(<<RecB>>)]}

\* mergeStrategy values a caller passes
Strategies == {"skip", "update", "merge"}

\* !data || !data.conversations || !Array.isArray(data.conversations)
InvalidImportData_NoArrayTest(data) ==
  \/ ~Truthy(data)
  \/ ~Has(data, "conversations")
  \/ ~Truthy(data.conversations)

InvalidImportData(data) ==
  \/ ~Truthy(data)
  \/ ~Has(data, "conversations")
  \/ ~Truthy(data.conversations)
  \/ ~IsArray(data.conversations)

NoResults == [imported |-> 0, skipped |-> 0, updated |-> 0, errors |-> <<>>]

\* an import that has been called: `before` is the stored list at the call,
\* `sets` counts its calls of chrome.storage.local.set, `clean` says that none
\* of its backend accesses has failed, `last` is what happened to the record
\* processed last
Importing(entry, data, strategy) ==
  [pc |-> "loop", entry |-> entry, data |-> data, strategy |-> strategy, i |-> 1,
   results |-> NoResults, outcome |-> NoResult, before |-> store, sets |-> 0,
   clean |-> TRUE, last |-> "none", failedAt |-> <<>>,
   io |-> [dupRead |-> "none", read |-> "none", write |-> "none"],
   first |-> NoResult]

ImportFailed(entry, data, strategy, error) ==
  [Importing(entry, data, strategy) EXCEPT !.pc = "done", !.outcome = Thrown(error)]

ImportIdle == UNCHANGED <<pc, op, convs, cleaned, result, io, snap, stale, base,
                          lastWriter, settings, page, extraction, popup, hist>>

\* importData(data, mergeStrategy) up to its loop: the validation, then
\* `await getAllConversations()`, whose value is not used
importDataFrom(entry, data, strategy, readFails) ==
  /\ imp.pc = "idle"
  /\ imp' = IF InvalidImportData(data)
            THEN ImportFailed(entry, data, strategy, InvalidFormat)
            ELSE [Importing(entry, data, strategy) EXCEPT !.clean = ~readFails]
  /\ UNCHANGED <<store, clock, nextId>>
  /\ ImportIdle

importData(data, strategy, readFails) ==
  importDataFrom("importData", data, strategy, readFails)

\* importData called again with the bundle and the strategy of the import
\* that has just returned; `first` keeps what that import returned and
\* whether its backend accesses all succeeded
importDataAgain(readFails) ==
  /\ imp.pc = "done" /\ imp.entry = "importData"
  /\ imp.outcome.status = "ok"
  /\ imp.first = NoResult
  /\ imp' = [Importing("importData", imp.data, imp.strategy) EXCEPT
               !.clean = ~readFails,
               !.first = [status |-> "ok", value |-> imp.outcome.value,
                          clean |-> imp.clean]]
  /\ UNCHANGED <<store, clock, nextId>>
  /\ ImportIdle

\* exportAllData(): the bundle of the stored list ([] when the read fails)
exportAllData(readFails) ==
  [version |-> "1.0", exportDate |-> "2026-01-01T00:00:00.000Z",
   conversations |-> Arr(getAllConversations(readFails)),
   settings |-> AnObject, statistics |-> AnObject]

\* the bundle exportAllData returns is handed to importData
importExported(strategy, exportFails, readFails) ==
  /\ store # <<>>
  /\ importDataFrom(IF exportFails THEN "failed exportAllData" ELSE "exportAllData",
                    exportAllData(exportFails), strategy, readFails)

\* the catch that records nothing
Caught_Dropped(results, convData, error) == results

\* the catch with the platform id in place of the title
Caught_PlatformId(results, convData, error) ==
  [results EXCEPT !.errors = Append(@, [conversation |-> convData.conversationId,
                                        error |-> error])]

\* the loop body's catch: results.errors.push({conversation, error})
Caught(results, convData, error) ==
  [results EXCEPT !.errors = Append(@, [conversation |-> convData.title,
                                        error |-> error])]

\* the test of the merge strategy on a duplicate, with `update` taken for `skip`
DuplicateAction_Swapped(strategy) ==
  CASE strategy = "skip" -> "update"
    [] strategy = "update" -> "skip"
    [] OTHER -> "save"

\* what the loop body does with a duplicate: skip it, update it, or fall
\* through to saveConversation for any other strategy
DuplicateAction(strategy) ==
  CASE strategy = "skip" -> "skip"
    [] strategy = "update" -> "update"
    [] OTHER -> "save"

\* the id updateConversation is called with, taken from the incoming record
UpdateTarget_Incoming(duplicate, convData) ==
  IF Has(convData, "id") THEN convData.id ELSE 0

\* updateConversation(duplicate.id, convData)
UpdateTarget(duplicate, convData) == duplicate.id

\* one round of the loop of importData, for the record convData: findDuplicate,
\* then nothing, updateConversation or saveConversation, each with its own
\* backend read (and write); an error thrown on the way is caught and recorded.
\* `io` keeps what became of the round's backend accesses, `failedAt` the
\* indices of the records whose round threw
importRecordWith(failures) ==
  /\ imp.pc = "loop"
  /\ imp.i <= Len(imp.data.conversations.array)
  /\ \E dupReadFails, readFails, writeFails \in failures, now \in Now :
       LET convData == imp.data.conversations.array[imp.i]
           results == imp.results
           duplicate == findDuplicateIn(getAllConversations(dupReadFails), convData)
           todo == IF Truthy(duplicate) THEN DuplicateAction(imp.strategy) ELSE "save"
           dupRead == IF Falsy(convData, "conversationId") THEN "none"
                      ELSE ReadStatus(dupReadFails)
           list == getAllConversations(readFails)
           Round(res, last, read, write) ==
             imp' = [imp EXCEPT
                       !.i = @ + 1, !.results = res, !.last = last,
                       !.io = [dupRead |-> dupRead, read |-> read, write |-> write],
                       !.clean = @ /\ "failed" \notin {dupRead, read, write},
                       !.sets = IF write = "none" THEN @ ELSE @ + 1,
                       !.failedAt = IF last = "error" THEN Append(@, imp.i) ELSE @]
           Write == IF writeFails THEN "failed" ELSE "ok"
       IN CASE todo = "skip" ->
                 /\ Round([results EXCEPT !.skipped = @ + 1], "skipped", "none", "none")
                 /\ UNCHANGED <<store, clock, nextId>>
            [] todo = "update" ->
                 LET id == UpdateTarget(duplicate, convData)
                     index == FindIndex(list, id)
                 IN IF index = 0
                    THEN /\ Round(Caught(results, convData, NotFound(id)), "error",
                                  ReadStatus(readFails), "none")
                         /\ UNCHANGED <<store, clock, nextId>>
                    ELSE LET merged == MergedConversation(list[index], convData, id, now)
                             updated == [list EXCEPT ![index] = merged]
                         IN /\ clock' = now
                            /\ UNCHANGED nextId
                            /\ IF writeFails
                               THEN /\ Round(Caught(results, convData, BackendError),
                                             "error", ReadStatus(readFails), Write)
                                    /\ UNCHANGED store
                               ELSE /\ Round([results EXCEPT !.updated = @ + 1],
                                             "updated", ReadStatus(readFails), Write)
                                    /\ store' = updated
            [] todo = "save" ->
                 LET conversation == NewConversation(convData, nextId, now)
                     check == checkAndCleanupStorage(Pushed(list, conversation))
                 IN /\ nextId <= MaxIds
                    /\ clock' = now
                    /\ nextId' = nextId + 1
                    /\ IF writeFails
                       THEN /\ Round(Caught(results, convData, BackendError),
                                     "error", ReadStatus(readFails), Write)
                            /\ UNCHANGED store
                       ELSE /\ Round([results EXCEPT !.imported = @ + 1],
                                     "imported", ReadStatus(readFails), Write)
                            /\ store' = check.array
  /\ ImportIdle

\* a round in which any backend access may fail
importRecord == importRecordWith(BOOLEAN)

\* the loop is over: importData returns results
importDataReturn ==
  /\ imp.pc = "loop"
  /\ imp.i > Len(imp.data.conversations.array)
  /\ imp' = [imp EXCEPT !.pc = "done", !.outcome = Ok(imp.results)]
  /\ UNCHANGED <<store, clock, nextId>>
  /\ ImportIdle

\* handleImport on the parsed document `data` of the chosen file: the check of
\* version and of conversations, the two dialogs, then importData; every
\* error ends in its catch, which shows it
handleImport(data, confirmed, update, readFails) ==
  LET strategy == IF update THEN "update" ELSE "skip"
      Shown(error) ==
        /\ imp.pc = "idle"
        /\ imp' = ImportFailed("handleImport", data, strategy, error)
        /\ UNCHANGED <<store, clock, nextId>>
        /\ ImportIdle
  IN IF ~Truthy(data) THEN Shown(TypeError)
     ELSE IF Falsy(data, "version") THEN Shown(MissingVersion)
     ELSE IF ~Has(data, "conversations") \/ ~Truthy(data.conversations)
             \/ ~IsArray(data.conversations)
          THEN Shown(NotAnArray)
     ELSE IF ~confirmed
          THEN /\ imp.pc = "idle"
               /\ imp' = [Importing("handleImport", data, strategy) EXCEPT
                            !.pc = "done", !.outcome = Ok(Undefined)]
               /\ UNCHANGED <<store, clock, nextId>>
               /\ ImportIdle
     ELSE importDataFrom("handleImport", data, strategy, readFails)

\* the caller has the result (or the error) of the import
ImportDone ==
  /\ imp.pc = "done"
  /\ imp' = NoImport
  /\ UNCHANGED <<store, clock, nextId>>
  /\ ImportIdle

\* one caller imports bundles, into the empty store or into a store that holds
\* a saved record of the platform conversation "c1"
ImportData == {d \in DataSamples : ~Falsy(d, "conversationId")}

NextImport ==
  \/ /\ imp.pc = "idle" /\ store = <<>>
     /\ \E d \in ImportData : saveConversationCall(1, d, FALSE, MaxIds)
     /\ StoreOnly
  \/ saveConversation(1) /\ StoreOnly
  \/ Return(1) /\ StoreOnly
  \/ /\ pc[1] = "idle"
     /\ \E data \in Bundles, strategy \in Strategies, f \in BOOLEAN :
          importData(data, strategy, f)
  \/ /\ pc[1] = "idle"
     /\ \E data \in Documents, confirmed, update, f \in BOOLEAN :
          handleImport(data, confirmed, update, f)
  \/ importRecord
  \/ importDataReturn
  \/ ImportDone

SpecImport == Init /\ [][NextImport]_vars

\* the bundles imported twice: the valid ones, and one whose first record has
\* no platform id
ReimportBundles ==
  ValidBundles \cup {[version |-> "1.0", conversations |-> Arr(<<RecC, RecB>>)]}

\* one caller, no backend failure: a bundle is imported and imported again,
\* and the bundle exportAllData returns is imported into the store it came from
NextReimport ==
  \/ /\ imp.pc = "idle" /\ store = <<>>
     /\ \E d \in ImportData : saveConversationCall(1, d, FALSE, MaxIds)
     /\ StoreOnly
  \/ saveConversation(1) /\ StoreOnly
  \/ Return(1) /\ StoreOnly
  \/ /\ pc[1] = "idle"
     /\ \E data \in ReimportBundles, strategy \in Strategies :
          importData(data, strategy, FALSE)
  \/ importDataAgain(FALSE)
  \/ /\ pc[1] = "idle" /\ imp.pc = "idle"
     /\ \E strategy \in Strategies : importExported(strategy, FALSE, FALSE)
  \/ importRecordWith({FALSE})
  \/ importDataReturn
  \/ ImportDone

SpecReimport == Init /\ [][NextReimport]_vars

---------------------------------------------------------------------------
(* Settings and the plain read of the list *)

DEFAULT_SETTINGS ==
  [autoSave |-> FALSE, exportFormat |-> "markdown", maxConversations |-> 200]

\* the argument of saveSettings: partial settings, settings with a key that is
\* no default key, nothing at all
SettingsSamples ==
  { NoFields, Undefined,
    [autoSave |-> TRUE],
    [exportFormat |-> "json", maxConversations |-> 50],
    [theme |-> "dark"] }

\* ...v in an object literal: null and undefined spread to nothing
Spreadable(v) == IF Truthy(v) THEN v ELSE NoFields

\* the catch of getSettings returning an empty object
getSettingsValue_EmptyOnFailure(readFails) ==
  IF readFails THEN NoFields
  ELSE Spread(DEFAULT_SETTINGS, Spreadable(settings))

\* getSettings: { ...DEFAULT_SETTINGS, ...(result[SETTINGS_KEY] || {}) }, or
\* DEFAULT_SETTINGS when the backend read fails
getSettingsValue(readFails) ==
  IF readFails THEN DEFAULT_SETTINGS
  ELSE Spread(DEFAULT_SETTINGS, Spreadable(settings))

\* the object written without the defaults
StoredSettings_Partial(partial) == Spreadable(partial)

\* what saveSettings writes: { ...DEFAULT_SETTINGS, ...settings }
StoredSettings(partial) == Spread(DEFAULT_SETTINGS, Spreadable(partial))

getSettings(p, readFails) ==
  ReadOnly(p, [name |-> "getSettings"], <<>>, ReadStatus(readFails),
           getSettingsValue(readFails))

\* getAllConversations called for its own sake
getAll(p, readFails) ==
  LET list == getAllConversations(readFails)
  IN ReadOnly(p, [name |-> "getAll"], list, ReadStatus(readFails), list)

\* saveSettings(partial): one backend write; true, or the error of the write
saveSettings(p, partial, writeFails) ==
  /\ pc[p] = "idle"
  /\ pc' = [pc EXCEPT ![p] = "done"]
  /\ op' = [op EXCEPT ![p] = [name |-> "saveSettings", settings |-> partial]]
  /\ io' = [io EXCEPT ![p] = [read |-> "none",
                              write |-> IF writeFails THEN "failed" ELSE "ok"]]
  /\ result' = [result EXCEPT ![p] = IF writeFails THEN Thrown(BackendError)
                                     ELSE Ok(TRUE)]
  /\ settings' = IF writeFails THEN settings ELSE StoredSettings(partial)
  /\ UNCHANGED <<store, clock, nextId, convs, cleaned, snap, stale, base,
                 lastWriter, imp, page, extraction, popup, hist>>

Done1SaveSettings == pc[1] = "done" /\ op[1].name = "saveSettings"

\* one caller saves conversations and settings (invocation 1) and reads them
\* (invocation 2), also right after a saveSettings, while its result is held
NextSettings ==
  \/ /\ pc[2] = "idle"
     /\ \E d \in ImportData : saveConversationCall(1, d, FALSE, MaxIds)
     /\ StoreOnly
  \/ saveConversation(1) /\ StoreOnly
  \/ /\ pc[2] = "idle"
     /\ \E partial \in SettingsSamples, f \in BOOLEAN : saveSettings(1, partial, f)
  \/ Return(1) /\ StoreOnly
  \/ /\ pc[1] = "idle"
     /\ \E f \in BOOLEAN : getAll(2, f)
     /\ StoreOnly
  \/ /\ pc[1] = "idle" \/ Done1SaveSettings
     /\ \E f \in BOOLEAN : getSettings(2, f)
     /\ StoreOnly
  \/ Return(2) /\ StoreOnly

SpecSettings == Init /\ [][NextSettings]_vars

---------------------------------------------------------------------------
(* The extractor: exportChatToMarkdown on the candidate turns of a page *)

\* number of candidate turn elements of a page
MaxBlocks == 3

\* lengths of the prefixes the extractor looks at
KeyChars == 100
TextChars == 50

\* s.substring(0, n)
Substring0(s, n) == SubSeq(s, 1, IF Len(s) < n THEN Len(s) ELSE n)

\* a pattern of alternatives tested on s: /w1|w2|.../.test(s)
Test(words, s) == \E w \in words : Includes(s, w)

\* the keywords of detectRole; TLA+ strings are ASCII, so the CJK characters
\* are written as digits: 1 = U+4F60, 23 = U+7528 U+6237, 45 = U+63D0 U+95EE,
\* 67 = U+6A21 U+578B, 89 = U+52A9 U+624B, 0- = U+56DE U+7B54
UserLabelWords == {"you", "user", "1", "23", "45"}
UserTextWords == {"you", "user", "1"}
AssistantLabelWords == {"gemini", "assistant", "ai", "67", "89", "0-"}
AssistantTextWords == {"gemini", "assistant", "ai"}

\* el.getAttribute(name) || ''
Attribute(el, name) == OrStr(el.attrs, name, "")

\* el.tagName.toLowerCase() === tag || el.closest(tag)
IsOrInside(el, tag) == el.tag = tag \/ \E i \in 1..Len(el.ancestors) : el.ancestors[i] = tag

Parity(index) == IF index % 2 = 0 THEN "User" ELSE "Assistant"

\* tiers 3 to 5 of detectRole: keywords, alignment, alternation
detectRoleByContent(el, index, innerWidth) ==
  LET aria == ToLowerCase(Attribute(el, "aria-label"))
      text == Substring0(ToLowerCase(el.innerText), TextChars)
  IN IF Test(UserLabelWords, aria) \/ Test(UserTextWords, text) THEN "User"
     ELSE IF Test(AssistantLabelWords, aria) \/ Test(AssistantTextWords, text)
          THEN "Assistant"
     ELSE IF ~el.rectThrows /\ el.left * 2 > innerWidth THEN "User"
     ELSE Parity(index)

\* detectRole with the attribute looked at before the tags
detectRole_AttributeFirst(el, index, innerWidth) ==
  LET roleAttr == OrStr(el.attrs, "data-message-author-role",
                        Attribute(el, "data-role"))
  IN IF roleAttr # "" THEN (IF roleAttr = "user" THEN "User" ELSE "Assistant")
     ELSE IF IsOrInside(el, "user-query") THEN "User"
     ELSE IF IsOrInside(el, "model-response") THEN "Assistant"
     ELSE detectRoleByContent(el, index, innerWidth)

\* detectRole(el, index); innerWidth is window.innerWidth
detectRole(el, index, innerWidth) ==
  LET roleAttr == OrStr(el.attrs, "data-message-author-role",
                        Attribute(el, "data-role"))
  IN IF IsOrInside(el, "user-query") THEN "User"
     ELSE IF IsOrInside(el, "model-response") THEN "Assistant"
     ELSE IF roleAttr # "" THEN (IF roleAttr = "user" THEN "User" ELSE "Assistant")
     ELSE detectRoleByContent(el, index, innerWidth)

\* the key without the role
Key_ContentOnly(m) == Substring0(m.content, KeyChars)

\* `${m.role}:${m.content.substring(0, 100)}`
Key(m) == m.role \o ":" \o Substring0(m.content, KeyChars)

\* step 5: messages.forEach(m => { if (!seen.has(key)) { final.push(m); seen.add(key) } })
RECURSIVE DeduplicateFrom(_, _, _)
DeduplicateFrom(messages, final, seen) ==
  IF messages = <<>> THEN final
  ELSE LET m == Head(messages)
       IN IF Key(m) \in seen
          THEN DeduplicateFrom(Tail(messages), final, seen)
          ELSE DeduplicateFrom(Tail(messages), Append(final, m), seen \cup {Key(m)})

Deduplicate(messages) == DeduplicateFrom(messages, <<>>, {})

\* a rendered content of exactly KeyChars characters, and a rendered text of
\* exactly TextChars characters, neither with a keyword of detectRole
Long100 == "Compare both sorting methods on speed, memory and code size, then pick one method for the project. ."
Text50 == "Compare both sorting methods on speed and memory. "

\* a candidate turn element: its lower-cased tag name, the tag names of its
\* ancestors, its attributes, its innerText, the left edge of its bounding
\* box (or getBoundingClientRect throwing), and the Markdown that
\* extractMarkdownFromElement renders of its content sub-element
El(tag, ancestors, attrs, innerText, left, rectThrows, content) ==
  [tag |-> tag, ancestors |-> ancestors, attrs |-> attrs, innerText |-> innerText,
   left |-> left, rectThrows |-> rectThrows, content |-> content]

AuthorRole(v) == "data-message-author-role" :> v
DataRole(v) == "data-role" :> v
AriaLabel(v) == "aria-label" :> v

ElementSamples ==
  { El("user-query", <<>>, AuthorRole("assistant"), "compare", 100, FALSE,
       Long100 \o " First."),
    El("div", <<"div", "user-query">>, DataRole("assistant"), "compare", 100, FALSE,
       Long100 \o " Second."),
    El("div", <<"model-response">>, DataRole("user"), "hello", 900, FALSE,
       "Hello there"),
    El("div", <<>>, AuthorRole("user") @@ AriaLabel("Assistant"), "hello", 100, FALSE,
       "Hello there"),
    El("div", <<>>, AuthorRole("User"), "thank you", 900, FALSE, "  Good, thanks \n\n"),
    El("div", <<>>, AuthorRole("") @@ DataRole("user"), "ok", 100, FALSE, "ok"),
    El("div", <<>>, AriaLabel("AI reply"), "sure", 900, FALSE, "Sure thing"),
    El("div", <<>>, AriaLabel("Gemini"), "thank you", 100, FALSE, "Thank you"),
    El("div", <<>>, NoFields, "hello world", 900, FALSE, "Hello world"),
    El("div", <<>>, NoFields, "hello world", 100, FALSE, "Fine"),
    El("div", <<>>, NoFields, Text50 \o "you", 900, TRUE, " \n"),
    El("message-content", <<>>, NoFields, "Hello World", 500, FALSE, "Hello world"),
    El("div", <<>>, AuthorRole("assistant"), "compare", 100, FALSE,
       " " \o Long100 \o " Third. \n"),
    El("div", <<>>, DataRole("assistant"), "compare", 900, FALSE,
       Long100 \o " Fourth.") }

\* a rendered-answer container of the fallback scan: the innerText of its
\* parent and of the parent's preceding siblings, nearest first, and the
\* Markdown rendered of the container
AnswerSamples ==
  { [prevTexts |-> <<"abc", "  What is a mutex?  ">>, content |-> " A lock. \n"],
    [prevTexts |-> <<"">>, content |-> "ok"] }

\* the pages scanned: up to MaxBlocks candidate turns, at most one container
Pages ==
  { [blocks |-> b, answers |-> a, innerWidth |-> 1000] :
      b \in UNION {[1..n -> ElementSamples] : n \in 0..MaxBlocks},
      a \in {<<>>} \cup {<<x>> : x \in AnswerSamples} }

\* step 3: the role of every candidate, and the messages pushed for the
\* candidates whose trimmed content is longer than 2 characters
\* the roles by position alone
RolesOf_ByParity(pg) == [i \in 1..Len(pg.blocks) |-> Parity(i - 1)]

RolesOf(pg) ==
  [i \in 1..Len(pg.blocks) |-> detectRole(pg.blocks[i], i - 1, pg.innerWidth)]

RECURSIVE ScanBlocks(_, _, _)
ScanBlocks(pg, i, messages) ==
  IF i > Len(pg.blocks) THEN messages
  ELSE LET content == Trim(pg.blocks[i].content)
       IN ScanBlocks(pg, i + 1,
                     IF content # "" /\ Len(content) > 2
                     THEN Append(messages, [role |-> RolesOf(pg)[i], content |-> content])
                     ELSE messages)

\* the walk from the container's parent through the preceding siblings to the
\* first element with at least 5 characters of text; '' when there is none
RECURSIVE PairedUserText(_)
PairedUserText(prevTexts) ==
  IF prevTexts = <<>> THEN ""
  ELSE IF Len(Head(prevTexts)) < 5 THEN PairedUserText(Tail(prevTexts))
  ELSE Trim(Head(prevTexts))

\* step 4: the fallback scan of the rendered-answer containers
RECURSIVE ScanAnswers(_, _)
ScanAnswers(answers, messages) ==
  IF answers = <<>> THEN messages
  ELSE LET ai == Head(answers)
           userText == PairedUserText(ai.prevTexts)
           withUser == IF userText # ""
                       THEN Append(messages, [role |-> "User", content |-> userText])
                       ELSE messages
       IN ScanAnswers(Tail(answers),
                      Append(withUser, [role |-> "Assistant",
                                        content |-> Trim(ai.content)]))

\* the result object built even when nothing is left
ExportResult_NeverNull(final) ==
  [count |-> Len(final), data |-> [messageCount |-> Len(final), messages |-> final]]

\* steps 5 to 7: null when the deduplicated list is empty, else the result
\* object (its count and its structured data)
ExportResult(final) ==
  IF Len(final) = 0 THEN Null
  ELSE [count |-> Len(final), data |-> [messageCount |-> Len(final), messages |-> final]]

\* exportChatToMarkdown on the page: the roles, the messages captured, the
\* deduplicated list, and the value returned (null when nothing is left)
Extracted(pg) ==
  LET scanned == ScanBlocks(pg, 1, <<>>)
      messages == IF Len(scanned) = 0 THEN ScanAnswers(pg.answers, <<>>) ELSE scanned
      final == Deduplicate(messages)
  IN [ran |-> TRUE, roles |-> RolesOf(pg), scanned |-> scanned,
      messages |-> messages, final |-> final,
      returned |-> ExportResult(final)]

exportChatToMarkdown ==
  /\ ~extraction.ran
  /\ extraction' = Extracted(page)
  /\ UNCHANGED <<store, clock, nextId, pc, op, convs, cleaned, result, io, snap,
                 stale, base, lastWriter, settings, imp, page, popup, hist>>

\* the extractor is run once on a page; the store is not involved
InitExtract ==
  /\ StoreInit
  /\ settings = Undefined
  /\ imp = NoImport
  /\ page \in Pages
  /\ extraction = NoExtraction
  /\ popup = NoPopup
  /\ hist = NoHistory

NextExtract == exportChatToMarkdown

SpecExtract == InitExtract /\ [][NextExtract]_vars

---------------------------------------------------------------------------
(* The popup: the click handler of "Save to History and Export" *)

\* what exportChatToMarkdown returned in the tab: null, or a result whose data
\* names the platform conversation of the page ('' when the URL has none)
PopupResults ==
  { Null,
    [count |-> 1,
     data |-> [title |-> "Gamma", provider |-> "claude",
               url |-> "https://claude.ai/chat/c1", conversationId |-> "c1",
               messageCount |-> 1,
               messages |-> <<[role |-> "User", content |-> "hi"]>>, timestamp |-> 0]],
    [count |-> 1,
     data |-> [title |-> "Delta", provider |-> "gemini",
               url |-> "https://gemini.google.com/app", conversationId |-> "",
               messageCount |-> 1,
               messages |-> <<[role |-> "User", content |-> "yo"]>>, timestamp |-> 0]] }

\* the handler has ended: what it showed, and what it had in hand
PopupEnded(extracted, duplicate, asked, shouldUpdate, outcome, clean) ==
  [pc |-> "done", extracted |-> extracted, duplicate |-> duplicate, asked |-> asked,
   shouldUpdate |-> shouldUpdate, outcome |-> outcome, before |-> store,
   clean |-> clean]

PopupIdle == UNCHANGED <<pc, op, convs, cleaned, result, io, snap, stale, base,
                         lastWriter, settings, imp, page, extraction, hist>>

\* the handler from the click to its last status line (html is the innerHTML
\* of the first rendered block, '' when there is none): extract, look for a
\* duplicate of a truthy conversationId, ask when there is one, and (unless
\* the user declined) call saveConversation with the extracted data
saveAndExport ==
  /\ popup.pc = "idle"
  /\ \E extracted \in PopupResults, html \in {"", "<p>hi</p>"}, now \in Now,
        shouldUpdate, dupReadFails, readFails, writeFails \in BOOLEAN :
       IF ~Truthy(extracted)
       THEN /\ popup' = PopupEnded(extracted, Null, FALSE, FALSE, "capture failed", TRUE)
            /\ UNCHANGED <<store, clock, nextId>>
       ELSE LET data == extracted.data
                lookedUp == ~Falsy(data, "conversationId")
                duplicate == IF lookedUp
                             THEN findDuplicateIn(getAllConversations(dupReadFails), data)
                             ELSE Null
                asked == Truthy(duplicate)
                clean == ~(lookedUp /\ dupReadFails) /\ ~readFails /\ ~writeFails
                fullData == IF html # "" THEN Spread(data, [content |-> html]) ELSE data
                conversation == NewConversation(fullData, nextId, now)
                check == checkAndCleanupStorage(
                           Pushed(getAllConversations(readFails), conversation))
            IN IF asked /\ ~shouldUpdate
               THEN /\ popup' = PopupEnded(extracted, duplicate, asked, shouldUpdate,
                                           "cancelled", ~dupReadFails)
                    /\ UNCHANGED <<store, clock, nextId>>
               ELSE /\ nextId <= MaxIds
                    /\ clock' = now
                    /\ nextId' = nextId + 1
                    /\ IF writeFails
                       THEN /\ popup' = PopupEnded(extracted, duplicate, asked,
                                                   shouldUpdate, "error", clean)
                            /\ UNCHANGED store
                       ELSE /\ popup' = PopupEnded(extracted, duplicate, asked,
                                                   shouldUpdate, "saved", clean)
                            /\ store' = check.array
  /\ PopupIdle

\* the popup is ready for the next click
PopupDone ==
  /\ popup.pc = "done"
  /\ popup' = NoPopup
  /\ UNCHANGED <<store, clock, nextId>>
  /\ PopupIdle

NextPopup ==
  \/ saveAndExport
  \/ PopupDone

SpecPopup == Init /\ [][NextPopup]_vars

---------------------------------------------------------------------------
(* The history page *)

MaxConfirms == 3

\* the page's two scripts both declare a global function deleteConversation;
\* the declaration of the script that is evaluated last is the one the global
\* name (and window.deleteConversation) refers to
ScriptOrders == {"store, history", "history, store"}

\* a.localeCompare(b) < 0, for titles of letters: letter by letter, case ignored
RECURSIVE LocaleLess(_, _)
LocaleLess(a, b) ==
  LET Rank(ch) == IF \E i \in 1..Len(LowerCase) : SubSeq(LowerCase, i, i) = ch
                  THEN CHOOSE i \in 1..Len(LowerCase) : SubSeq(LowerCase, i, i) = ch
                  ELSE 0
      x == Rank(LowerChar(SubSeq(a, 1, 1)))
      y == Rank(LowerChar(SubSeq(b, 1, 1)))
  IN IF Len(b) = 0 THEN FALSE
     ELSE IF Len(a) = 0 THEN TRUE
     ELSE IF x # y THEN x < y
     ELSE LocaleLess(SubSeq(a, 2, Len(a)), SubSeq(b, 2, Len(b)))

\* the comparator of handleSort is negative on (a, b)
Before(a, b, sortBy) ==
  CASE sortBy = "newest" -> b.timestamp < a.timestamp
    [] sortBy = "oldest" -> a.timestamp < b.timestamp
    [] sortBy = "title" -> LocaleLess(a.title, b.title)
    [] OTHER -> FALSE

\* list.sort(comparator): stable
RECURSIVE SortedBy(_, _)
SortedBy(list, sortBy) ==
  IF list = <<>> THEN <<>>
  ELSE LET sorted == SortedBy(SubSeq(list, 1, Len(list) - 1), sortBy)
           c == list[Len(list)]
           behind == {k \in 1..Len(sorted) : Before(c, sorted[k], sortBy)}
           at == IF behind = {} THEN Len(sorted) + 1
                 ELSE CHOOSE k \in behind : \A j \in behind : k <= j
       IN SubSeq(sorted, 1, at - 1) \o <<c>> \o SubSeq(sorted, at, Len(sorted))

NoDelete == [pc |-> "idle"]

\* loadConversations: both lists are the stored list ([] when the read
\* fails); the controls keep their values
Loaded(h, list) == [h EXCEPT !.all = list, !.filtered = list]

\* handleSort: filteredConversations is sorted in place by the select's value
handleSort(h) == [h EXCEPT !.filtered = SortedBy(@, h.sortBy)]

\* handleFilter: a non-empty select value filters filteredConversations as it
\* is; then handleSort
handleFilter(h) ==
  handleSort(IF h.provider # ""
             THEN [h EXCEPT !.filtered = SelectSeq(@, LAMBDA c : c.provider = h.provider)]
             ELSE h)

\* handleSearch: filteredConversations is computed from allConversations by
\* the test searchConversations also makes; then handleFilter
handleSearch(h) ==
  LET query == Trim(ToLowerCase(h.search))
  IN handleFilter([h EXCEPT !.filtered =
                      IF query = "" THEN h.all
                      ELSE SelectSeq(h.all, LAMBDA c : MatchesQuery(c, query))])

HistoryIdle == UNCHANGED <<pc, op, convs, cleaned, result, io, snap, stale, base,
                           lastWriter, settings, imp, page, extraction, popup>>

\* DOMContentLoaded: loadConversations, then the listeners are set up
loadPage ==
  /\ ~hist.loaded
  /\ \E order \in ScriptOrders, readFails \in BOOLEAN :
       hist' = [loaded |-> TRUE, order |-> order, search |-> "", provider |-> "",
                sortBy |-> "newest", all |-> getAllConversations(readFails),
                filtered |-> getAllConversations(readFails), last |-> "load",
                del |-> NoDelete]
  /\ UNCHANGED <<store, clock, nextId>>
  /\ HistoryIdle

\* an event of one of the three controls, with the control's new value
ControlEvent(h) ==
  /\ hist.loaded /\ hist.del.pc = "idle"
  /\ hist' = h
  /\ UNCHANGED <<store, clock, nextId>>
  /\ HistoryIdle

searchInput(text) ==
  ControlEvent(handleSearch([hist EXCEPT !.search = text, !.last = "search"]))

providerChange(value) ==
  ControlEvent(handleFilter([hist EXCEPT !.provider = value, !.last = "filter"]))

sortChange(value) ==
  ControlEvent(handleSort([hist EXCEPT !.sortBy = value, !.last = "sort"]))

\* a click on the Delete button of the listed conversation id: the inline
\* handler calls the global deleteConversation(id). When that is the store's
\* function the record is deleted at once; when it is the page's function,
\* the confirm dialog is shown
clickDelete(id) ==
  /\ hist.loaded /\ hist.del.pc = "idle"
  /\ HasId(hist.filtered, id)
  /\ IF hist.order = "history, store"
     THEN \E readFails, writeFails \in BOOLEAN :
            /\ hist' = [hist EXCEPT !.last = "delete",
                          !.del = [pc |-> "done", id |-> id, dialogs |-> 0,
                                   confirmed |-> 0, storeCalls |-> 1, shown |-> 0,
                                   clean |-> ~readFails /\ ~writeFails]]
            /\ store' = IF writeFails THEN store
                        ELSE WithoutIds(getAllConversations(readFails), {id})
     ELSE /\ hist' = [hist EXCEPT !.last = "delete",
                        !.del = [pc |-> IF HasId(hist.all, id) THEN "confirm" ELSE "done",
                                 id |-> id,
                                 dialogs |-> IF HasId(hist.all, id) THEN 1 ELSE 0,
                                 confirmed |-> 0, storeCalls |-> 0, shown |-> 0,
                                 clean |-> TRUE]]
          /\ UNCHANGED store
  /\ UNCHANGED <<clock, nextId>>
  /\ HistoryIdle

\* the user answers the dialog of the page's deleteConversation. OK: the
\* function awaits window.deleteConversation(id), which is itself, so the
\* dialog is shown again. Cancel: the innermost call returns, and every call
\* that was confirmed goes on to loadConversations and 'Conversation deleted'
answerConfirm(ok) ==
  /\ hist.loaded /\ hist.del.pc = "confirm"
  /\ IF ok
     THEN /\ hist.del.dialogs < MaxConfirms
          /\ hist' = [hist EXCEPT !.del.dialogs = @ + 1, !.del.confirmed = @ + 1]
     ELSE \E readFails \in BOOLEAN :
            hist' = IF hist.del.confirmed = 0
                    THEN [hist EXCEPT !.del.pc = "done"]
                    ELSE [Loaded(hist, getAllConversations(readFails)) EXCEPT
                            !.del.pc = "done", !.del.shown = hist.del.confirmed,
                            !.del.clean = ~readFails, !.last = "load"]
  /\ UNCHANGED <<store, clock, nextId>>
  /\ HistoryIdle

\* the Delete handler is over
DeleteDone ==
  /\ hist.loaded /\ hist.del.pc = "done"
  /\ hist' = [hist EXCEPT !.del = NoDelete]
  /\ UNCHANGED <<store, clock, nextId>>
  /\ HistoryIdle

\* conversations are saved, then the history page is opened and used: texts
\* typed into the search box, values of the provider select ('' is "all
\* providers") and of the sort select, clicks on Delete
NextHistory ==
  \/ /\ ~hist.loaded
     /\ \E d \in SearchData : saveConversationCall(1, d, FALSE, MaxIds)
     /\ StoreOnly
  \/ saveConversation(1) /\ StoreOnly
  \/ Return(1) /\ StoreOnly
  \/ pc[1] = "idle" /\ loadPage
  \/ \E text \in {"", " Beta ", "a"} : searchInput(text)
  \/ \E value \in {"", "claude", "chatgpt"} : providerChange(value)
  \/ \E value \in {"newest", "oldest", "title"} : sortChange(value)
  \/ \E id \in IdSet : clickDelete(id)
  \/ \E ok \in BOOLEAN : answerConfirm(ok)
  \/ DeleteDone

SpecHistory == Init /\ [][NextHistory]_vars

---------------------------------------------------------------------------
(* Vocabulary of the properties *)

Done(p, name) == pc[p] = "done" /\ op[p].name = name
DoneOk(p, name) == Done(p, name) /\ result[p].status = "ok"

\* the list getAllConversations gave invocation p
ListRead(p) == IF io[p].read = "ok" THEN snap[p] ELSE <<>>

Favourites(list) == {c \in Range(list) : c.isFavorite}

\* position of the record with this id in a list that has it once
PositionOf(list, id) == CHOOSE i \in 1..Len(list) : list[i].id = id

SortedNewestFirst(list) ==
  \A i, j \in 1..Len(list) : i < j => list[i].timestamp >= list[j].timestamp

---------------------------------------------------------------------------
(* C1: when saveConversation runs and the updated list (the records read   *)
(* plus the new one) is above 90% of the ceiling and has a non-favourite,   *)
(* the list it persists no longer holds the oldest ceil(10%) non-favourites *)
C1_SaveEvictsOldestNonFavourites ==
  \A p \in Procs :
    (Saved(p) /\ lastWriter = p) =>
      LET updated == Append(ListRead(p), result[p].value)
      IN (Over90(updated) /\ \E c \in Range(updated) : ~c.isFavorite) =>
           \A id \in ToDelete(SortDesc(updated)) : ~HasId(store, id)

(* C2: capacity eviction never removes a favourite: every favourite of the  *)
(* list handed to checkAndCleanupStorage is in the list it returns, every   *)
(* favourite saveConversation read is stored after its write, and the same  *)
(* holds of checkAndCleanupStorage applied to whatever list is stored       *)
C2_EvictionKeepsFavourites ==
  /\ \A p \in Procs :
       Done(p, "save") =>
         /\ Favourites(convs[p]) \subseteq Range(cleaned[p])
         /\ (result[p].status = "ok" /\ lastWriter = p) =>
              Favourites(ListRead(p)) \subseteq Range(store)
  /\ Favourites(store) \subseteq Range(checkAndCleanupStorage(store).returned)

\* a save above the limit whose capacity check dropped a record while the
\* list held a favourite
C2_Witness ==
  \E p \in Procs :
    /\ Saved(p)
    /\ Over90(convs[p])
    /\ Favourites(convs[p]) # {}
    /\ Len(cleaned[p]) < Len(convs[p])

(* C3: a save, update or delete one of whose backend accesses failed ends   *)
(* with an error thrown to its caller, never with a successful return       *)
C3_BackendFailurePropagates ==
  \A p \in Procs :
    ( /\ pc[p] = "done"
      /\ op[p].name \in {"save", "update", "delete", "deleteMany"}
      /\ (io[p].read = "failed" \/ io[p].write = "failed") )
    => result[p].status = "error"

(* C4: two invocations of save/update/delete whose reads and writes        *)
(* interleave can lose an update (the witness: both saves returned, the     *)
(* stored list has only the record of the one that wrote last); when the    *)
(* second ran after the first without interleaving, and they do not name    *)
(* the same record, the stored list shows the effect of both               *)
Writes(p) == pc[p] = "done" /\ result[p].status = "ok"
             /\ op[p].name \in {"save", "update", "delete"}

\* the record an invocation that returned is about
Target(p) == IF op[p].name = "save" THEN result[p].value.id ELSE op[p].id

EffectPresent(p) ==
  CASE op[p].name = "save" -> HasId(store, result[p].value.id)
    [] op[p].name = "update" ->
         \E i \in 1..Len(store) : store[i] = result[p].value
    [] op[p].name = "delete" -> ~HasId(store, op[p].id)

\* q read what p had written, nothing was written between q's read and q's
\* write, and nothing since
RanAfter(p, q) == base[q] = p /\ ~stale[q] /\ lastWriter = q

C4_NoLossWithoutInterleaving ==
  \A p, q \in Procs :
    ( /\ p # q /\ Writes(p) /\ Writes(q)
      /\ io[p].read = "ok" /\ io[q].read = "ok"
      /\ RanAfter(p, q)
      /\ Target(p) # Target(q) )
    => EffectPresent(p) /\ EffectPresent(q)

\* a lost update: both saves returned their record, the second wrote over a
\* list it had read before the first wrote, and the first record is gone
C4_LostUpdate ==
  \E p, q \in Procs :
    /\ p # q /\ Saved(p) /\ Saved(q)
    /\ stale[q] /\ lastWriter = q
    /\ ~HasId(store, result[p].value.id)
    /\ HasId(store, result[q].value.id)

(* C5: updateConversation with an id no stored conversation has throws      *)
(* Not-Found, performs no backend write and leaves the stored list as it was *)
C5_UpdateOfMissingIdFails ==
  [][ \A p \in Procs :
        ( /\ pc[p] = "read" /\ op[p].name = "update" /\ pc'[p] = "done"
          /\ ~HasId(snap[p], op[p].id) )
        => /\ result'[p] = Thrown(NotFound(op[p].id))
           /\ io'[p].write = "none"
           /\ store' = store ]_vars

\* an update of an id that is absent from a non-empty stored list has ended
C5_Witness ==
  \E p \in Procs :
    /\ Done(p, "update") /\ io[p].read = "ok"
    /\ snap[p] # <<>> /\ ~HasId(snap[p], op[p].id)
    /\ result[p].status = "error"

(* C6: updateConversation(id, updates) on an existing id stores and returns *)
(* the existing record overlaid with updates, its id still the original id  *)
(* even when updates has an id field, modifiedAt stamped; the other records, *)
(* the length of the list and the position of the record are unchanged      *)
C6_UpdateMergesInPlace ==
  [][ \A p \in Procs :
        ( /\ pc[p] = "read" /\ op[p].name = "update" /\ pc'[p] = "done"
          /\ io[p].read = "ok" /\ HasId(snap[p], op[p].id)
          /\ io'[p].write = "ok" )
        => LET i == PositionOf(snap[p], op[p].id)
               old == snap[p][i]
               u == op[p].updates
               new == result'[p].value
           IN /\ result'[p].status = "ok"
              /\ Len(store') = Len(snap[p])
              /\ store'[i] = new
              /\ \A j \in 1..Len(snap[p]) : j # i => store'[j] = snap[p][j]
              /\ new.id = op[p].id
              /\ DOMAIN new = (DOMAIN old) \cup (DOMAIN u) \cup {"modifiedAt"}
              /\ new.modifiedAt = clock'
              /\ \A k \in (DOMAIN u) \ {"id", "modifiedAt"} : new[k] = u[k]
              /\ \A k \in (DOMAIN old) \ ((DOMAIN u) \cup {"modifiedAt"}) :
                   new[k] = old[k] ]_vars

\* an update whose updates carry another id than the one updated has been
\* stored in a list of several records
C6_Witness ==
  \E p \in Procs :
    /\ DoneOk(p, "update")
    /\ Has(op[p].updates, "id") /\ op[p].updates.id # op[p].id
    /\ Len(store) >= 2
    /\ \E i \in 1..Len(store) : store[i] = result[p].value

(* C7: saveConversation(d) followed by getConversation of the returned id   *)
(* returns a record equal to d in every field of d but id and timestamp     *)
C7_SaveThenGetReturnsData ==
  \A p, q \in Procs :
    ( /\ Saved(p) /\ io[p].read = "ok"
      /\ DoneOk(q, "get") /\ io[q].read = "ok"
      /\ op[q].id = result[p].value.id )
    => LET d == op[p].data
           r == result[q].value
       IN \A k \in (DOMAIN d) \ {"id", "timestamp"} : Has(r, k) /\ r[k] = d[k]

(* C8: deleteConversation and deleteConversations are idempotent: deleting *)
(* an id that is not stored returns without error and leaves the stored     *)
(* list unchanged, a second delete of the same ids would write the same     *)
(* list again; only records whose id is among the deleted ids are removed   *)
(* and the remaining records keep their order                               *)
DeletedIds(o) == IF o.name = "delete" THEN {o.id} ELSE Range(o.ids)

C8_DeleteIsIdempotent ==
  [][ \A p \in Procs :
        ( /\ pc[p] = "read" /\ op[p].name \in {"delete", "deleteMany"}
          /\ pc'[p] = "done"
          /\ io[p].read = "ok" /\ io'[p].write = "ok" )
        => LET ids == DeletedIds(op[p])
               kept == {i \in 1..Len(snap[p]) : snap[p][i].id \notin ids}
           IN /\ result'[p] = Ok(TRUE)
              /\ (ids \cap Ids(snap[p]) = {} => store' = snap[p])
              /\ Len(store') = Cardinality(kept)
              /\ \A i \in kept : \E j \in 1..Len(store') : store'[j] = snap[p][i]
              /\ \A j \in 1..Len(store') :
                   /\ store'[j].id \notin ids
                   /\ \E i \in kept : snap[p][i] = store'[j]
              /\ \A j, k \in 1..Len(store') :
                   j < k => PositionOf(snap[p], store'[j].id)
                              < PositionOf(snap[p], store'[k].id)
              /\ WithoutIds(store', ids) = store' ]_vars

\* a delete of an id that was stored once and is stored no more has returned,
\* and the stored list, which has several records, is what it was
C8_Witness ==
  \E p \in Procs :
    /\ DoneOk(p, "delete") /\ io[p].read = "ok"
    /\ op[p].id < nextId /\ ~HasId(snap[p], op[p].id)
    /\ Len(snap[p]) >= 2 /\ store = snap[p]

(* C9: findDuplicate with an empty or absent conversationId yields no match *)
(* whatever is stored, also when a stored record has the empty string as    *)
(* its conversationId; with a non-empty conversationId it yields the first  *)
(* stored record with that conversationId, or no match when there is none   *)
NoMatch(v) == v = Null \/ v = Undefined

C9_FindDuplicateResult ==
  \A p \in Procs :
    (Done(p, "findDuplicate") /\ io[p].read # "failed") =>
      LET a == op[p].args
          r == result[p].value
          hits == IF Has(a, "conversationId")
                  THEN {i \in 1..Len(snap[p]) :
                          snap[p][i].conversationId = a.conversationId}
                  ELSE {}
      IN /\ result[p].status = "ok"
         /\ IF ~Has(a, "conversationId") \/ a.conversationId = "" \/ hits = {}
            THEN NoMatch(r)
            ELSE \E i \in hits : r = snap[p][i] /\ \A j \in hits : i <= j

\* findDuplicate of the empty string on a list that stores a record whose
\* conversationId is the empty string
C9_Witness ==
  \E p \in Procs :
    /\ Done(p, "findDuplicate")
    /\ Has(op[p].args, "conversationId") /\ op[p].args.conversationId = ""
    /\ \E i \in 1..Len(snap[p]) : snap[p][i].conversationId = ""
    /\ NoMatch(result[p].value)

(* C10: searchConversations with an empty or whitespace-only query and no  *)
(* filters returns every stored conversation exactly once, ordered by       *)
(* non-increasing timestamp, whatever the order of the stored list, and     *)
(* does not change the stored list                                          *)
EmptySearch(a) ==
  /\ ~Has(a, "query") \/ Trim(a.query) = ""
  /\ ~Has(a, "filters") \/ a.filters = NoFields

C10_EmptySearchReturnsAllSorted ==
  \A p \in Procs :
    (Done(p, "search") /\ io[p].read = "ok" /\ EmptySearch(op[p].args)) =>
      LET r == result[p].value
      IN /\ result[p].status = "ok"
         /\ Len(r) = Len(snap[p])
         /\ \A i \in 1..Len(snap[p]) :
              Cardinality({j \in 1..Len(r) : r[j] = snap[p][i]}) = 1
         /\ SortedNewestFirst(r)
         /\ store = snap[p]

\* a whitespace-only search on a stored list that is not ordered newest first
C10_Witness ==
  \E p \in Procs :
    /\ Done(p, "search") /\ io[p].read = "ok"
    /\ Has(op[p].args, "query") /\ op[p].args.query = " "
    /\ EmptySearch(op[p].args)
    /\ Len(snap[p]) >= 2 /\ ~SortedNewestFirst(snap[p])
    /\ SortedNewestFirst(result[p].value)

(* C11: searchConversations(query, filters) returns exactly the stored      *)
(* conversations that match the query and satisfy every supplied filter:    *)
(* provider equal, isFavorite equal (true or false), timestamp >= startDate *)
(* and <= endDate for every supplied bound value, a tag in common with tags *)
SatisfiesQuery(c, a) ==
  \/ ~Has(a, "query")
  \/ Trim(a.query) = ""
  \/ MatchesQuery(c, ToLowerCase(a.query))

SatisfiesFilters(c, f) ==
  /\ Has(f, "provider") => c.provider = f.provider
  /\ Has(f, "isFavorite") => c.isFavorite = f.isFavorite
  /\ Has(f, "startDate") => c.timestamp >= f.startDate
  /\ Has(f, "endDate") => c.timestamp <= f.endDate
  /\ Has(f, "tags") => \E t \in Range(f.tags) : t \in Range(c.tags)

SuppliedFilters(a) == IF Has(a, "filters") THEN a.filters ELSE NoFields

C11_SearchReturnsExactlyTheMatches ==
  \A p \in Procs :
    (Done(p, "search") /\ io[p].read = "ok") =>
      LET a == op[p].args
          r == result[p].value
          expected == {c \in Range(snap[p]) :
                         SatisfiesQuery(c, a) /\ SatisfiesFilters(c, SuppliedFilters(a))}
      IN /\ result[p].status = "ok"
         /\ Range(r) = expected
         /\ Len(r) = Cardinality(expected)

---------------------------------------------------------------------------
(* Vocabulary of the import properties *)

\* the records of the bundle being imported, and its record processed now
Incoming == imp.data.conversations.array

\* a round of the loop of importData is taken
RoundTaken == imp.pc = "loop" /\ imp'.pc = "loop" /\ imp'.i = imp.i + 1

\* the loop ends and importData returns
ImportReturns == imp.pc = "loop" /\ imp'.pc = "done"

\* indices of the stored records that have the platform id of record c
Matching(list, c) ==
  IF Falsy(c, "conversationId") THEN {}
  ELSE {k \in 1..Len(list) : list[k].conversationId = c.conversationId}

Counted(results) == results.imported + results.skipped + results.updated

(* C12: importData with strategy 'skip', without backend failure: a record  *)
(* whose non-empty conversationId is that of a stored record at the moment  *)
(* it is processed is counted in skipped and changes nothing; every other   *)
(* record is inserted and counted in imported; updated stays 0; the stored  *)
(* list has grown by exactly the imported count when importData returns     *)
C12_SkipImport ==
  [][ /\ (RoundTaken /\ imp.strategy = "skip" /\ imp'.clean) =>
           LET c == Incoming[imp.i]
               r == imp.results
               r2 == imp'.results
           IN /\ r2.updated = 0 /\ r2.errors = <<>>
              /\ IF Matching(store, c) # {}
                 THEN /\ r2.skipped = r.skipped + 1 /\ r2.imported = r.imported
                      /\ store' = store
                 ELSE /\ r2.imported = r.imported + 1 /\ r2.skipped = r.skipped
                      /\ Len(store') = Len(store) + 1
                      /\ Range(store) \subseteq Range(store')
                      /\ \E j \in 1..Len(store') :
                           /\ ~HasId(store, store'[j].id)
                           /\ store'[j].title = c.title
                           /\ store'[j].conversationId = c.conversationId
      /\ (ImportReturns /\ imp.strategy = "skip" /\ imp.clean) =>
           /\ imp'.outcome = Ok(imp.results)
           /\ Counted(imp.results) = Len(Incoming)
           /\ imp.results.updated = 0
           /\ store' = store
           /\ Len(store) = Len(imp.before) + imp.results.imported ]_vars

\* the bundle of three records, one of them of a stored platform conversation,
\* has been imported with 'skip': two imported, one skipped, two records more
C12_Witness ==
  /\ imp.pc = "done" /\ imp.entry = "importData" /\ imp.strategy = "skip"
  /\ imp.clean /\ imp.outcome.status = "ok"
  /\ Len(Incoming) = 3 /\ Len(imp.before) = 1
  /\ imp.results = [imported |-> 2, skipped |-> 1, updated |-> 0, errors |-> <<>>]
  /\ Len(store) = 3

\* the stored record findDuplicate finds for record c: the first that matches
FirstMatch(list, c) == CHOOSE k \in Matching(list, c) : \A j \in Matching(list, c) : k <= j

\* a round of an import with 'update' on a record that has a stored match:
\* it is counted in updated and merged onto the match, whose id stays and whose
\* fields other than `except` become those of the incoming record
MergedOntoMatch(except) ==
  LET c == Incoming[imp.i]
      k == FirstMatch(store, c)
      r == imp.results
      r2 == imp'.results
  IN /\ r2.updated = r.updated + 1 /\ r2.imported = r.imported
     /\ r2.skipped = 0 /\ r2.errors = <<>>
     /\ Len(store') = Len(store)
     /\ \A j \in 1..Len(store) : j # k => store'[j] = store[j]
     /\ store'[k].id = store[k].id
     /\ \A f \in (DOMAIN c) \ except : Has(store'[k], f) /\ store'[k][f] = c[f]
     /\ \A f \in (DOMAIN store[k]) \ ((DOMAIN c) \cup {"modifiedAt"}) :
          store'[k][f] = store[k][f]

UpdateImportGrowsByImported ==
  (ImportReturns /\ imp.strategy = "update" /\ imp.clean) =>
    /\ imp'.outcome = Ok(imp.results)
    /\ imp.results.skipped = 0
    /\ Counted(imp.results) = Len(Incoming)
    /\ store' = store
    /\ Len(store) = Len(imp.before) + imp.results.imported

UpdatesMatch ==
  RoundTaken /\ imp.strategy = "update" /\ imp'.clean
    /\ Matching(store, Incoming[imp.i]) # {}

(* C13, as claimed: importData with strategy 'update' merges each incoming   *)
(* record whose non-empty conversationId matches a stored record onto that   *)
(* record and counts it in updated (skipped stays 0); the matched record's   *)
(* fields then equal the incoming record's fields while its id is the id it  *)
(* had before; the stored list grows only by the imported count              *)
C13_UpdateImportAsClaimed ==
  [][ /\ UpdatesMatch => MergedOntoMatch({"id"})
      /\ UpdateImportGrowsByImported ]_vars

(* C13, amended: as above, but the matched record's fields equal the         *)
(* incoming record's fields except id, which stays, and modifiedAt, which is *)
(* the time of the merge also when the incoming record has a modifiedAt      *)
C13_UpdateImport ==
  [][ /\ UpdatesMatch =>
           /\ MergedOntoMatch({"id", "modifiedAt"})
           /\ store'[FirstMatch(store, Incoming[imp.i])].modifiedAt = clock'
      /\ (RoundTaken /\ imp.strategy = "update" /\ imp'.clean
            /\ Matching(store, Incoming[imp.i]) = {}) =>
           /\ imp'.results.imported = imp.results.imported + 1
           /\ imp'.results.updated = imp.results.updated
           /\ Len(store') = Len(store) + 1
      /\ UpdateImportGrowsByImported ]_vars

\* the bundle of three records, one of them of a stored platform conversation,
\* has been imported with 'update': the stored record has its old id and the
\* incoming title and notes, and two records were added
C13_Witness ==
  /\ imp.pc = "done" /\ imp.entry = "importData" /\ imp.strategy = "update"
  /\ imp.clean /\ imp.outcome.status = "ok"
  /\ Len(Incoming) = 3 /\ Len(imp.before) = 1
  /\ imp.results = [imported |-> 2, skipped |-> 0, updated |-> 1, errors |-> <<>>]
  /\ Len(store) = 3
  /\ store[1].id = imp.before[1].id /\ store[1].id # Incoming[1].id
  /\ store[1].title = Incoming[1].title /\ store[1].title # imp.before[1].title
  /\ store[1].notes = Incoming[1].notes

(* C14: importData called with a bundle that is absent, or whose            *)
(* conversations field is missing or not an array, fails with the            *)
(* Invalid-Format error before any record is processed: it makes no backend  *)
(* write and the stored list is unchanged                                    *)
Malformed(data) ==
  \/ data \in {Undefined, Null}
  \/ ~Has(data, "conversations")
  \/ ~IsArray(data.conversations)

C14_MalformedBundleFails ==
  (imp.pc # "idle" /\ imp.entry = "importData" /\ Malformed(imp.data)) =>
    /\ imp.pc = "done"
    /\ imp.outcome = Thrown(InvalidFormat)
    /\ imp.i = 1 /\ imp.results = NoResults
    /\ imp.sets = 0
    /\ store = imp.before

\* importData has thrown on a bundle whose conversations is an object that is
\* not an array, with records stored
C14_Witness ==
  /\ imp.pc = "done" /\ imp.entry = "importData"
  /\ Truthy(imp.data) /\ Has(imp.data, "conversations")
  /\ imp.data.conversations = AnObject
  /\ imp.outcome.status = "error"
  /\ store # <<>>

(* C15: an import document without a top-level version field is rejected as *)
(* a validation failure before any record is processed, the stored list      *)
(* unchanged, on every import entry point (handleImport and importData)      *)
C15_MissingVersionRejected ==
  (imp.pc # "idle" /\ Falsy(imp.data, "version")) =>
    /\ imp.pc = "done"
    /\ imp.outcome.status = "error"
    /\ imp.i = 1 /\ imp.results = NoResults
    /\ store = imp.before

(* C16: during importData a failure while processing one record (a backend  *)
(* write failure in saveConversation or updateConversation, a Not-Found in   *)
(* updateConversation) is recorded as one entry in errors, with the record's *)
(* title and the error message; every later record is still processed, in   *)
(* bundle order, and importData returns its result rather than failing       *)
C16_RecordFailureIsRecorded ==
  [][ /\ RoundTaken =>
           LET c == Incoming[imp.i]
               r == imp.results
               r2 == imp'.results
               notFound == /\ imp.strategy = "update" /\ Matching(store, c) # {}
                           /\ imp'.io.dupRead = "ok" /\ imp'.io.read = "failed"
           IN /\ imp'.io.write = "failed" =>
                   /\ r2 = [r EXCEPT !.errors =
                              Append(@, [conversation |-> c.title,
                                         error |-> BackendError])]
                   /\ store' = store
              /\ notFound =>
                   r2 = [r EXCEPT !.errors =
                           Append(@, [conversation |-> c.title,
                                      error |-> NotFound(store[FirstMatch(store, c)].id)])]
              /\ (imp'.io.write # "failed" /\ ~notFound) => r2.errors = r.errors
              /\ Len(r2.errors) = Len(imp'.failedAt)
      /\ ImportReturns =>
           /\ imp.i = Len(Incoming) + 1
           /\ imp'.outcome = Ok(imp.results)
           /\ Len(imp.results.errors) = Len(imp.failedAt)
           /\ \A k \in 1..Len(imp.failedAt) :
                /\ imp.results.errors[k].conversation = Incoming[imp.failedAt[k]].title
                /\ \A j \in 1..(k - 1) : imp.failedAt[j] < imp.failedAt[k] ]_vars

\* importData has returned its result for a bundle of three records whose
\* first failed on the backend write and whose last was imported all the same
C16_Witness ==
  /\ imp.pc = "done" /\ imp.outcome.status = "ok"
  /\ Len(Incoming) = 3 /\ imp.failedAt = <<1>>
  /\ imp.results.errors = <<[conversation |-> Incoming[1].title, error |-> BackendError]>>
  /\ imp.last = "imported" /\ imp.results.imported >= 1

---------------------------------------------------------------------------
(* C17: pure reads never fail on a backend failure: getAllConversations     *)
(* returns the empty list and getSettings the default settings when the      *)
(* backend read fails, neither throws; when the read succeeds                *)
(* getAllConversations returns exactly the stored list                       *)
C17_PureReadsNeverFail ==
  \A p \in Procs :
    /\ Done(p, "getAll") =>
         /\ result[p].status = "ok"
         /\ io[p].read = "failed" => result[p].value = <<>>
         /\ io[p].read = "ok" => result[p].value = store
    /\ Done(p, "getSettings") =>
         /\ result[p].status = "ok"
         /\ io[p].read = "failed" =>
              result[p].value = [autoSave |-> FALSE, exportFormat |-> "markdown",
                                 maxConversations |-> 200]

\* getAllConversations has returned [] on a failed read of a store that holds
\* records, with settings stored that are not the defaults
C17_Witness ==
  \E p \in Procs :
    /\ Done(p, "getAll") /\ io[p].read = "failed"
    /\ store # <<>> /\ result[p].value = <<>>
    /\ Truthy(settings) /\ settings # DEFAULT_SETTINGS

(* C18: after any sequence of saveSettings calls getSettings returns a      *)
(* record with every default key (autoSave, exportFormat, maxConversations); *)
(* after saveSettings(p) the stored settings are the defaults overridden by  *)
(* p, so getSettings returns p's value for every key of p and the default    *)
(* for every other key, whatever was saved before                            *)
DefaultKeys == {"autoSave", "exportFormat", "maxConversations"}

KeysOf(partial) == IF Truthy(partial) THEN DOMAIN partial ELSE {}

C18_SettingsMergeWithDefaults ==
  /\ \A p \in Procs :
       Done(p, "getSettings") => DefaultKeys \subseteq DOMAIN result[p].value
  /\ \A p \in Procs :
       DoneOk(p, "saveSettings") =>
         LET partial == op[p].settings
         IN /\ DOMAIN settings = DefaultKeys \cup KeysOf(partial)
            /\ \A k \in KeysOf(partial) : settings[k] = partial[k]
            /\ \A k \in DefaultKeys \ KeysOf(partial) : settings[k] = DEFAULT_SETTINGS[k]
            /\ \A q \in Procs :
                 (Done(q, "getSettings") /\ io[q].read = "ok") =>
                   /\ \A k \in KeysOf(partial) : result[q].value[k] = partial[k]
                   /\ \A k \in DefaultKeys \ KeysOf(partial) :
                        result[q].value[k] = DEFAULT_SETTINGS[k]

\* getSettings right after a saveSettings of one key: it returns the key saved
\* and the defaults of the others
C18_Witness ==
  \E p, q \in Procs :
    /\ DoneOk(p, "saveSettings") /\ Done(q, "getSettings") /\ io[q].read = "ok"
    /\ op[p].settings = [autoSave |-> TRUE]
    /\ result[q].value = [autoSave |-> TRUE, exportFormat |-> "markdown",
                          maxConversations |-> 200]


---------------------------------------------------------------------------
(* The extractor *)

\* two messages have the same key: the same role and the same first 100
\* characters of content
SameKey(a, b) ==
  a.role = b.role /\ Substring0(a.content, 100) = Substring0(b.content, 100)

\* the positions of a list whose message has no earlier message of the same key
FirstOfKey(ms) ==
  {i \in 1..Len(ms) : \A j \in 1..(i - 1) : ~SameKey(ms[j], ms[i])}

\* the messages at the positions of a set, in the order of the list
Kept(ms, idx) ==
  [k \in 1..Cardinality(idx) |->
     ms[CHOOSE i \in idx : Cardinality({j \in idx : j <= i}) = k]]

\* C19: the deduplication pass keeps exactly the first message of every key
\* (role plus the first 100 characters of content) in the order of the input,
\* its output has no two messages of the same key, and the pass applied to
\* its own output returns that output
C19_DeduplicationKeepsFirstOfKey ==
  extraction.ran =>
    /\ extraction.final = Kept(extraction.messages, FirstOfKey(extraction.messages))
    /\ \A i, j \in 1..Len(extraction.final) :
         i # j => ~SameKey(extraction.final[i], extraction.final[j])
    /\ Deduplicate(extraction.final) = extraction.final

\* a later message of another content but the same key was dropped, and the
\* first message and a message after the dropped one were kept, in that order
C19_Witness ==
  /\ extraction.ran
  /\ LET ms == extraction.messages
     IN /\ \E i, j \in 1..Len(ms) :
             /\ i < j /\ SameKey(ms[i], ms[j]) /\ ms[i].content # ms[j].content
             /\ j < Len(ms) /\ Len(ms) \in FirstOfKey(ms)
        /\ Len(extraction.final) = 2
        /\ extraction.final[1] = ms[1]
        /\ extraction.final[2] = ms[Len(ms)]


\* what each tier of the cascade reads of an element
InsideTag(el, tag) ==
  el.tag = tag \/ \E k \in 1..Len(el.ancestors) : el.ancestors[k] = tag

RoleAttribute(el) ==
  IF "data-message-author-role" \in DOMAIN el.attrs /\ el.attrs["data-message-author-role"] # ""
  THEN el.attrs["data-message-author-role"]
  ELSE IF "data-role" \in DOMAIN el.attrs THEN el.attrs["data-role"] ELSE ""

LabelOf(el) ==
  ToLowerCase(IF "aria-label" \in DOMAIN el.attrs THEN el.attrs["aria-label"] ELSE "")

TextOf(el) == Substring0(ToLowerCase(el.innerText), 50)

UserKeyword(el) ==
  LET label == LabelOf(el)
      text == TextOf(el)
  IN \/ \E w \in UserLabelWords : Includes(label, w)
     \/ \E w \in UserTextWords : Includes(text, w)

AssistantKeyword(el) ==
  LET label == LabelOf(el)
      text == TextOf(el)
  IN \/ \E w \in AssistantLabelWords : Includes(label, w)
     \/ \E w \in AssistantTextWords : Includes(text, w)

TagTier(el) == InsideTag(el, "user-query") \/ InsideTag(el, "model-response")
AttributeTier(el) == RoleAttribute(el) # ""
KeywordTier(el) == UserKeyword(el) \/ AssistantKeyword(el)
RightHalf(el) == ~el.rectThrows /\ 2 * el.left > page.innerWidth

\* C20: detectRole is a first-match-wins cascade, tag, role attribute,
\* keyword, position, parity: a tag decides whatever the attribute says; with
\* no tag the attribute 'user' gives User and any other non-empty value
\* Assistant; with neither, a keyword decides; with none of the three an
\* element in the right half is User; otherwise, and when the geometry
\* lookup fails, an even zero-based index gives User and an odd one Assistant
C20_DetectRoleCascade ==
  extraction.ran =>
    \A i \in 1..Len(page.blocks) :
      LET el == page.blocks[i]
          role == extraction.roles[i]
      IN /\ InsideTag(el, "user-query") /\ ~InsideTag(el, "model-response")
              => role = "User"
         /\ InsideTag(el, "model-response") /\ ~InsideTag(el, "user-query")
              => role = "Assistant"
         /\ ~TagTier(el) /\ RoleAttribute(el) = "user" => role = "User"
         /\ ~TagTier(el) /\ RoleAttribute(el) \notin {"", "user"} => role = "Assistant"
         /\ ~TagTier(el) /\ ~AttributeTier(el) /\ UserKeyword(el) /\ ~AssistantKeyword(el)
              => role = "User"
         /\ ~TagTier(el) /\ ~AttributeTier(el) /\ AssistantKeyword(el) /\ ~UserKeyword(el)
              => role = "Assistant"
         /\ ~TagTier(el) /\ ~AttributeTier(el) /\ ~KeywordTier(el) /\ RightHalf(el)
              => role = "User"
         /\ ~TagTier(el) /\ ~AttributeTier(el) /\ ~KeywordTier(el) /\ ~RightHalf(el)
              => role = (IF (i - 1) % 2 = 0 THEN "User" ELSE "Assistant")

\* an element of a user-query tag with the attribute 'assistant' came out
\* User, an element at index 1 whose geometry lookup fails came out
\* Assistant by parity, and an element with the attribute 'User' came out
\* Assistant although it lies in the right half with a user keyword in its text
C20_Witness ==
  /\ extraction.ran
  /\ Len(page.blocks) = 3
  /\ page.blocks[1].tag = "user-query"
  /\ RoleAttribute(page.blocks[1]) = "assistant"
  /\ page.blocks[2].rectThrows
  /\ ~TagTier(page.blocks[2]) /\ ~AttributeTier(page.blocks[2])
  /\ ~KeywordTier(page.blocks[2])
  /\ RoleAttribute(page.blocks[3]) = "User"
  /\ UserKeyword(page.blocks[3]) /\ RightHalf(page.blocks[3])
  /\ extraction.roles = <<"User", "Assistant", "Assistant">>


AttributeRole(el) == IF RoleAttribute(el) = "user" THEN "User" ELSE "Assistant"

\* one message per candidate, in document order, with the role of its
\* attribute and the trimmed content of its content sub-element
OnePerCandidate ==
  /\ extraction.returned # Null
  /\ extraction.returned.data.messages =
       [i \in 1..Len(page.blocks) |->
          [role |-> AttributeRole(page.blocks[i]),
           content |-> Trim(page.blocks[i].content)]]

\* every candidate carries the role attribute 'user' or 'assistant' and
\* content longer than 2 characters
ExplicitRoles ==
  /\ Len(page.blocks) >= 1
  /\ \A i \in 1..Len(page.blocks) :
       /\ RoleAttribute(page.blocks[i]) \in {"user", "assistant"}
       /\ Len(Trim(page.blocks[i].content)) > 2

---------------------------------------------------------------------------
(* The popup *)

\* the stored records of a platform conversation
RecordsOf(list, conversationId) ==
  {k \in 1..Len(list) : list[k].conversationId = conversationId}

\* C23: when a stored conversation has the page's non-empty conversationId and
\* the user confirms the 'update it' dialog, the store afterwards holds at most
\* one conversation with that conversationId
C23_ConfirmedUpdateKeepsOneRecord ==
  ( /\ popup.pc = "done"
    /\ popup.outcome = "saved"
    /\ popup.clean
    /\ popup.asked /\ popup.shouldUpdate
    /\ Cardinality(RecordsOf(popup.before, popup.extracted.data.conversationId)) = 1 )
  => Cardinality(RecordsOf(store, popup.extracted.data.conversationId)) <= 1


---------------------------------------------------------------------------
(* The keyword tier *)

LabelMatches(el, words) == LET label == LabelOf(el) IN \E w \in words : Includes(label, w)
TextMatches(el, words) == LET text == TextOf(el) IN \E w \in words : Includes(text, w)

\* C24: in tier 3 the label is checked first and the text second: a label
\* that matches a keyword decides the role (User keywords before Assistant
\* keywords), and the first 50 characters of text decide it (User keywords
\* before Assistant keywords) only when the label matches no keyword
C24_LabelBeforeText ==
  extraction.ran =>
    \A i \in 1..Len(page.blocks) :
      LET el == page.blocks[i]
          role == extraction.roles[i]
          labelUser == LabelMatches(el, UserLabelWords)
          labelAssistant == LabelMatches(el, AssistantLabelWords)
      IN (~TagTier(el) /\ ~AttributeTier(el)) =>
           /\ labelUser => role = "User"
           /\ (~labelUser /\ labelAssistant) => role = "Assistant"
           /\ (~labelUser /\ ~labelAssistant /\ TextMatches(el, UserTextWords))
                => role = "User"
           /\ (~labelUser /\ ~labelAssistant /\ ~TextMatches(el, UserTextWords)
                 /\ TextMatches(el, AssistantTextWords))
                => role = "Assistant"


---------------------------------------------------------------------------
(* A failed read *)

\* the ids an invocation names for deletion
NamedForDeletion(o) == IF o.name = "save" THEN {} ELSE DeletedIds(o)

\* C25: when the backend read of saveConversation, deleteConversation or
\* deleteConversations fails and its write succeeds, every conversation that
\* was stored before and was not named for deletion is still stored afterwards
C25_FailedReadDestroysNothing ==
  \A p \in Procs :
    ( /\ pc[p] = "done"
      /\ op[p].name \in {"save", "delete", "deleteMany"}
      /\ io[p].read = "failed"
      /\ io[p].write = "ok" )
    => \A k \in 1..Len(snap[p]) :
         snap[p][k].id \notin NamedForDeletion(op[p]) => HasId(store, snap[p][k].id)


---------------------------------------------------------------------------
(* The history page *)

\* the conversation matches the text of the search box
MatchesSearchBox(c, text) ==
  LET q == Trim(ToLowerCase(text))
  IN \/ q = ""
     \/ Includes(ToLowerCase(c.title), q)
     \/ Includes(ToLowerCase(c.content), q)
     \/ Includes(ToLowerCase(c.notes), q)
     \/ \E t \in 1..Len(c.tags) : Includes(ToLowerCase(c.tags[t]), q)

\* a is not after b under the sort key
InOrder(a, b, sortBy) ==
  CASE sortBy = "newest" -> a.timestamp >= b.timestamp
    [] sortBy = "oldest" -> a.timestamp <= b.timestamp
    [] sortBy = "title" -> ~LocaleLess(b.title, a.title)

\* C27: after any sequence of search-input, provider-filter-change and
\* sort-change events the displayed list is the loaded conversations that
\* match the current search text and the current provider value (all
\* providers when it is empty), ordered by the current sort key
C27_DisplayedListFollowsControls ==
  (hist.loaded /\ hist.last \in {"search", "filter", "sort"}) =>
    LET shown == hist.filtered
        expected == {c \in Range(hist.all) :
                       /\ MatchesSearchBox(c, hist.search)
                       /\ hist.provider = "" \/ c.provider = hist.provider}
    IN /\ Range(shown) = expected
       /\ Len(shown) = Cardinality(expected)
       /\ \A i, j \in 1..Len(shown) : i < j => InOrder(shown[i], shown[j], hist.sortBy)


\* C26: when the user clicks Delete on a listed conversation and confirms the
\* dialog, the store's deleteConversation is invoked for that id, the handler
\* ends after that single confirmation, and the conversation is then absent
\* from the stored list
C26_ConfirmedDeleteRemovesRecord ==
  ( /\ hist.loaded
    /\ hist.del.pc = "done"
    /\ hist.del.confirmed >= 1
    /\ hist.del.clean )
  => /\ hist.del.storeCalls = 1
     /\ hist.del.dialogs = 1
     /\ ~HasId(store, hist.del.id)


---------------------------------------------------------------------------
(* Import: accounting, re-import, platform ids *)

\* importData has returned its results
Returned == imp.pc = "done" /\ imp.outcome.status = "ok" /\ imp.outcome.value # Undefined

\* C28: for every valid bundle and every mergeStrategy value, the result of
\* importData has imported + skipped + updated + length(errors) = number of
\* records of the bundle; while the loop runs, the four add up to the number
\* of records processed
C28_EveryRecordAccounted ==
  /\ imp.pc = "loop" =>
       Counted(imp.results) + Len(imp.results.errors) = imp.i - 1
  /\ Returned =>
       /\ imp.outcome.value = imp.results
       /\ Counted(imp.outcome.value) + Len(imp.outcome.value.errors) = Len(Incoming)

\* an import of three records returned one imported, one skipped, one error
C28_Witness ==
  /\ Returned
  /\ Len(Incoming) = 3
  /\ imp.outcome.value.imported = 1
  /\ imp.outcome.value.skipped = 1
  /\ Len(imp.outcome.value.errors) = 1


\* every record of the bundle names a platform conversation
AllWithPlatformId ==
  \A k \in 1..Len(Incoming) : ~Falsy(Incoming[k], "conversationId")

\* this import repeats, with the same bundle and strategy, an import that
\* returned without errors
RepeatsCleanImport ==
  /\ imp.first.status = "ok"
  /\ imp.first.clean
  /\ imp.first.value.errors = <<>>

\* C29: after importData(bundle, 'skip') has completed without errors, a second
\* importData(bundle, 'skip') of the same bundle, whose records all have
\* non-empty conversationIds, reports imported = 0 and skipped = n and leaves
\* the stored list unchanged; and importing (with 'skip') what exportAllData
\* returned into the store it came from adds no record that has a non-empty
\* conversationId
C29_ReimportIsIdempotent ==
  /\ ( /\ Returned
       /\ RepeatsCleanImport
       /\ imp.clean
       /\ imp.strategy = "skip"
       /\ AllWithPlatformId )
     => /\ imp.outcome.value.imported = 0
        /\ imp.outcome.value.skipped = Len(Incoming)
        /\ store = imp.before
  /\ ( /\ imp.pc \in {"loop", "done"}
       /\ imp.entry = "exportAllData"
       /\ imp.clean
       /\ imp.strategy = "skip" )
     => \A k \in 1..Len(store) :
          store[k].conversationId # "" => store[k] \in Range(imp.before)

\* a bundle of two records was imported into the empty store and imported
\* again: the second import skipped both
C29_Witness ==
  /\ Returned
  /\ RepeatsCleanImport
  /\ imp.strategy = "skip"
  /\ AllWithPlatformId
  /\ imp.first.value.imported >= 1
  /\ Len(Incoming) = 2
  /\ imp.outcome.value.skipped = 2
  /\ store = imp.before


\* no two conversations of the list share a non-empty conversationId
UniquePlatformIds(list) ==
  \A j, k \in 1..Len(list) :
    (j # k /\ list[j].conversationId # "") =>
      list[j].conversationId # list[k].conversationId

\* C30: if no two stored conversations share a non-empty conversationId before
\* importData runs (alone, without backend failure), none do afterwards, for
\* every bundle and for every mergeStrategy value passed
C30_ImportKeepsPlatformIdsUnique ==
  (Returned /\ imp.clean /\ UniquePlatformIds(imp.before)) => UniquePlatformIds(store)


---------------------------------------------------------------------------
(* The content of the messages returned *)

\* C31: every message of a non-null extraction result has trimmed content
\* longer than 2 characters, whether it came from the candidate-turn scan or
\* from the fallback scan of rendered-answer containers, which runs only when
\* the candidate-turn scan produced zero messages
C31_ReturnedMessagesHaveContent ==
  (extraction.ran /\ extraction.returned # Null) =>
    /\ \A k \in 1..Len(extraction.returned.data.messages) :
         Len(Trim(extraction.returned.data.messages[k].content)) > 2
    /\ extraction.messages # extraction.scanned => Len(extraction.scanned) = 0

====
